---- MODULE Spec2Model ----
(***************************************************************************)
(* A model of the recommendation pipeline of robotGetnews' backend:        *)
(* the repository cache and recommendation stores (upserts through a       *)
(* SQLAlchemy session), and the job orchestrator that runs                 *)
(* fetch -> cache -> filter/score -> save -> notify per preference.        *)
(*                                                                         *)
(* Tables are sequences of rows in insertion order, so that a duplicate    *)
(* row is representable and Query(...).first() is the first match.         *)
(* Python dicts are records: a missing key is a missing field.             *)
(* Sub-scores and weights are integers in thousandths, scores in millionths.*)
(***************************************************************************)
EXTENDS Integers, Sequences, FiniteSets, TLC

VARIABLES
  pref_enabled,     \* column enabled of table preferences, by preference id
  sessions,         \* the transactions of save_recommendations open in concurrent sessions
  autoflush,        \* the Session's autoflush setting (fixed at construction)
  db_faulty,        \* whether the database may fail a commit of the job row
  now,              \* the database clock read by func.now()
  repo_cache,       \* table repo_cache
  recommendations,  \* table recommendations
  last_call,        \* the last store call made directly: its arguments and how it returned
  job_runs,         \* table job_runs; a row's id is its index
  pc,               \* where the triggered run stands
  args,             \* the arguments of execute_recommendation_job
  loc,              \* its locals
  client_open,      \* whether the GitHubClient session of the run is open
  result,           \* what execute_recommendation_job returned or raised
  response,         \* the TriggerRunResponse of the last trigger
  events            \* the structured log of the run

jobvars == <<job_runs, pc, args, loc, client_open, result, response, events>>

vars == <<pref_enabled, sessions, autoflush, db_faulty, now, repo_cache, recommendations, last_call,
          job_runs, pc, args, loc, client_open, result, response, events>>

----------------------------------------------------------------------------
(* Bounds of the model *)

\* the longest list handed to one store call
MaxBatch == 2
\* the number of direct store calls in a behaviour of SpecRec or SpecCache
MaxCalls == 2

UserIds == {1, 2}
RepoIds == {1, 2}

\* NULL in a timestamp column (the clock starts at 1)
Null == 0

\* all sequences over S of length at most n
RECURSIVE SeqsUpTo(_, _)
SeqsUpTo(S, n) ==
  IF n = 0 THEN {<<>>}
  ELSE LET shorter == SeqsUpTo(S, n - 1)
       IN  shorter \cup {Append(s, x) : s \in {t \in shorter : Len(t) = n - 1}, x \in S}

----------------------------------------------------------------------------
(* Python dict access *)

\* d.get(k, default)
Get(d, k, default) == IF k \in DOMAIN d THEN d[k] ELSE default

----------------------------------------------------------------------------
(* The provider's repository items and GitHubClient.parse_repo_data *)

\* the keys parse_repo_data reads with repo_data[...]: a KeyError without them
RequiredRawKeys == {"id", "full_name", "name", "stargazers_count", "created_at", "updated_at"}

ParseRaises(repo_data) == ~(RequiredRawKeys \subseteq DOMAIN repo_data)

\* the normalized dict; the flags become the strings "true"/"false"
parse_repo_data(repo_data) ==
  [repo_id          |-> repo_data["id"],
   full_name        |-> repo_data["full_name"],
   name             |-> repo_data["name"],
   description      |-> Get(repo_data, "description", <<>>),
   topics           |-> Get(repo_data, "topics", <<>>),
   language         |-> Get(repo_data, "language", <<>>),
   stargazers_count |-> repo_data["stargazers_count"],
   is_archived      |-> IF Get(repo_data, "archived", FALSE) THEN "true" ELSE "false",
   is_disabled      |-> IF Get(repo_data, "disabled", FALSE) THEN "true" ELSE "false",
   created_at       |-> repo_data["created_at"],
   updated_at       |-> repo_data["updated_at"],
   github_data      |-> repo_data]

----------------------------------------------------------------------------
(* The SQLAlchemy session: rows the transaction sees, and objects added     *)
(* with db.add() that no flush has written yet                              *)

\* a lookup by repo_id alone
FirstRec_AnyUser(rows, u, r) ==
  LET hits == {i \in 1..Len(rows) : rows[i].repo_id = r}
  IN  IF hits = {} THEN 0 ELSE CHOOSE i \in hits : \A k \in hits : i <= k

\* index of the first row satisfying the (user_id, repo_id) filter, 0 for no row
FirstRec(rows, u, r) ==
  LET hits == {i \in 1..Len(rows) : rows[i].user_id = u /\ rows[i].repo_id = r}
  IN  IF hits = {} THEN 0 ELSE CHOOSE i \in hits : \A k \in hits : i <= k

FirstRepo(rows, r) ==
  LET hits == {i \in 1..Len(rows) : rows[i].repo_id = r}
  IN  IF hits = {} THEN 0 ELSE CHOOSE i \in hits : \A k \in hits : i <= k

\* a query autoflushes the pending objects first, when the session autoflushes
Flushed(sess) ==
  IF autoflush THEN [rows |-> sess.rows \o sess.pending, pending |-> <<>>] ELSE sess

\* the table without its unique index
RecUniqueOk_NoIndex(rows) == TRUE

\* Index('idx_recommendations_user_repo_unique', user_id, repo_id, unique=True)
RecUniqueOk(rows) ==
  \A i, k \in 1..Len(rows) :
     (i # k) => ~(rows[i].user_id = rows[k].user_id /\ rows[i].repo_id = rows[k].repo_id)

\* repo_id = Column(Integer, unique=True, ...)
RepoUniqueOk(rows) ==
  \A i, k \in 1..Len(rows) : (i # k) => rows[i].repo_id # rows[k].repo_id

----------------------------------------------------------------------------
(* RecommendationEngine.save_recommendations *)

\* an item of filtered_repos is the tuple (repo_data, score, reasoning)
NewRecommendation(u, it, p, j, t) ==
  [user_id |-> u, repo_id |-> it.repo_data["repo_id"], score |-> it.score,
   reason |-> it.reasoning, preference_id |-> p, job_run_id |-> j,
   sent_channels |-> <<>>, sent_at |-> Null, created_at |-> t]

\* an update that forgets the score
UpdateExisting_KeepsScore(existing, it, p, j, t) ==
  [existing EXCEPT !.reason = it.reasoning,
                   !.preference_id = p, !.job_run_id = j, !.created_at = t]

UpdateExisting(existing, it, p, j, t) ==
  [existing EXCEPT !.score = it.score, !.reason = it.reasoning,
                   !.preference_id = p, !.job_run_id = j, !.created_at = t]

\* the loop over filtered_repos: sess is the session, out the list being returned
\* (each Recommendation object is named by its repo_id; the user is the call's)
RECURSIVE SaveLoop(_, _, _, _, _, _, _)
SaveLoop(sess, out, items, u, p, j, t) ==
  IF items = <<>> THEN [sess |-> sess, out |-> out]
  ELSE LET it == Head(items)
           s1 == Flushed(sess)
           i  == FirstRec(s1.rows, u, it.repo_data["repo_id"])
           s2 == IF i > 0
                 THEN [s1 EXCEPT !.rows[i] = UpdateExisting(@, it, p, j, t)]
                 ELSE [s1 EXCEPT !.pending = Append(@, NewRecommendation(u, it, p, j, t))]
       IN  SaveLoop(s2, Append(out, it.repo_data["repo_id"]), Tail(items), u, p, j, t)

\* db.commit(): the flush writes the pending rows; a row that breaks the unique
\* index raises IntegrityError and the transaction is rolled back
CommitRecs(rows, sess) ==
  LET written == sess.rows \o sess.pending
  IN  IF RecUniqueOk(written)
      THEN [raised |-> FALSE, rows |-> written]
      ELSE [raised |-> TRUE, rows |-> rows]

\* the whole method on the table `rows` at time t: the table it leaves, whether it
\* raised, and the list it returns
save_recommendations(rows, u, p, j, filtered_repos, t) ==
  LET loop == SaveLoop([rows |-> rows, pending |-> <<>>], <<>>, filtered_repos, u, p, j, t)
      c    == CommitRecs(rows, loop.sess)
  IN  [rows |-> c.rows, raised |-> c.raised, ret |-> IF c.raised THEN <<>> ELSE loop.out]

----------------------------------------------------------------------------
(* JobExecutionService._cache_repositories *)

\* RepoCache(**parsed_data); fetched_at takes its server default
NewRepoCache(parsed, t) ==
  [k \in DOMAIN parsed \cup {"fetched_at"} |-> IF k = "fetched_at" THEN t ELSE parsed[k]]

\* an update that leaves fetched_at as it was
UpdateRepoCache_StaleFetchedAt(existing, parsed, t) ==
  [k \in DOMAIN existing |->
     IF k # "repo_id" /\ k \in DOMAIN parsed THEN parsed[k] ELSE existing[k]]

\* for key, value in parsed_data.items(): if key != "repo_id": setattr(...);
\* existing_repo.fetched_at = func.now()
UpdateRepoCache(existing, parsed, t) ==
  [k \in DOMAIN existing |->
     IF k = "fetched_at" THEN t
     ELSE IF k # "repo_id" /\ k \in DOMAIN parsed THEN parsed[k]
     ELSE existing[k]]

\* the loop without its try: a snapshot that does not parse ends the batch
RECURSIVE CacheLoop_AbortsOnMalformed(_, _, _, _)
CacheLoop_AbortsOnMalformed(sess, out, repos, t) ==
  IF repos = <<>> THEN [sess |-> sess, out |-> out]
  ELSE LET repo_data == Head(repos)
       IN  IF ParseRaises(repo_data)
           THEN [sess |-> sess, out |-> out]
           ELSE LET parsed == parse_repo_data(repo_data)
                    s1 == Flushed(sess)
                    i  == FirstRepo(s1.rows, parsed.repo_id)
                    s2 == IF i > 0
                          THEN [s1 EXCEPT !.rows[i] = UpdateRepoCache(@, parsed, t)]
                          ELSE [s1 EXCEPT !.pending = Append(@, NewRepoCache(parsed, t))]
                IN  CacheLoop_AbortsOnMalformed(s2, Append(out, parsed.repo_id), Tail(repos), t)

RECURSIVE CacheLoop(_, _, _, _)
CacheLoop(sess, out, repos, t) ==
  IF repos = <<>> THEN [sess |-> sess, out |-> out]
  ELSE LET repo_data == Head(repos)
       IN  IF ParseRaises(repo_data)
           THEN CacheLoop(sess, out, Tail(repos), t)       \* except: log, continue
           ELSE LET parsed == parse_repo_data(repo_data)
                    s1 == Flushed(sess)
                    i  == FirstRepo(s1.rows, parsed.repo_id)
                    s2 == IF i > 0
                          THEN [s1 EXCEPT !.rows[i] = UpdateRepoCache(@, parsed, t)]
                          ELSE [s1 EXCEPT !.pending = Append(@, NewRepoCache(parsed, t))]
                IN  CacheLoop(s2, Append(out, parsed.repo_id), Tail(repos), t)

CommitRepos(rows, sess) ==
  LET written == sess.rows \o sess.pending
  IN  IF RepoUniqueOk(written)
      THEN [raised |-> FALSE, rows |-> written]
      ELSE [raised |-> TRUE, rows |-> rows]

\* the whole method: the commit is outside the per-repo try, so its error propagates
cache_repositories(rows, repos, t) ==
  LET loop == CacheLoop([rows |-> rows, pending |-> <<>>], <<>>, repos, t)
      c    == CommitRepos(rows, loop.sess)
  IN  [rows |-> c.rows, raised |-> c.raised, ret |-> IF c.raised THEN <<>> ELSE loop.out]

\* _repo_cache_to_dict: every column but github_data
repo_cache_to_dict(row) ==
  [k \in DOMAIN row \ {"github_data"} |-> row[k]]

----------------------------------------------------------------------------
(* Text: a string is the sequence of its characters *)

LowerChar(c) ==
  CASE c = "A" -> "a" [] c = "G" -> "g" [] c = "I" -> "i" [] c = "P" -> "p" [] OTHER -> c

\* str.lower()
Lower(s) == [i \in 1..Len(s) |-> LowerChar(s[i])]

\* a in b (substring)
IsSubstr(a, b) ==
  \E k \in 0..(Len(b) - Len(a)) : \A i \in 1..Len(a) : b[k + i] = a[i]

\* " ".join(fields)
RECURSIVE JoinSpace(_)
JoinSpace(fields) ==
  IF fields = <<>> THEN <<>>
  ELSE IF Len(fields) = 1 THEN fields[1]
  ELSE fields[1] \o <<" ">> \o JoinSpace(Tail(fields))

\* None, for a nullable message
None == "None"

\* None, for an optional integer attribute (max_stars) or an optional time; a
\* text that is None or "" is the empty sequence, which the code treats alike.
\* A time of a repository or of a preference is held as its age, the number of
\* days it lies before the run: the earlier time has the greater age
NoInt == -1

\* Python truth of an optional integer: neither None nor 0
TruthyInt(x) == x # NoInt /\ x # 0

----------------------------------------------------------------------------
(* RecommendationEngine: scoring. A score is an integer in millionths, a     *)
(* sub-score in thousandths, a weight in thousandths.                        *)

\* _keyword_matches: the phrase test; the \b...\b search finds nothing more,
\* a match of it being a substring of the lowered text too
keyword_matches(keyword, text) == IsSubstr(keyword, text)

SearchableText(repo_data) ==
  LET fields == << Get(repo_data, "name", <<>>), Get(repo_data, "description", <<>>),
                   Get(repo_data, "full_name", <<>>) >>
  IN  Lower(JoinSpace(SelectSeq(fields, LAMBDA f : f # <<>>)))

\* _score_keywords: (score, matched_keywords, excluded_matches)
score_keywords(repo_data, keywords, excluded_keywords) ==
  IF keywords = <<>> THEN [score |-> 0, matched |-> <<>>, excluded |-> <<>>]
  ELSE LET text == SearchableText(repo_data)
           matched == SelectSeq(keywords, LAMBDA k : keyword_matches(Lower(k), text))
           excl == SelectSeq(excluded_keywords, LAMBDA k : keyword_matches(Lower(k), text))
       IN  [score |-> (1000 * Len(matched)) \div Len(keywords),
            matched |-> matched, excluded |-> excl]

\* _score_language
score_language(repo_data, preferred_languages) ==
  IF preferred_languages = <<>> THEN 500
  ELSE LET repo_language == Get(repo_data, "language", <<>>)
       IN  IF repo_language = <<>> THEN 100
           ELSE IF \E i \in 1..Len(preferred_languages) : preferred_languages[i] = repo_language
                THEN 1000
           ELSE IF \E i \in 1..Len(preferred_languages) :
                      \/ IsSubstr(Lower(preferred_languages[i]), Lower(repo_language))
                      \/ IsSubstr(Lower(repo_language), Lower(preferred_languages[i]))
                THEN 700
           ELSE 0

\* _score_stars
score_stars(repo_data, min_stars, max_stars) ==
  LET stars == Get(repo_data, "stargazers_count", 0)
  IN  IF stars < min_stars THEN 0
      ELSE IF TruthyInt(max_stars) /\ stars > max_stars THEN 300
      ELSE IF stars < 100 THEN 500
      ELSE IF stars < 1000 THEN 700
      ELSE IF stars < 10000 THEN 900
      ELSE 1000

\* _score_freshness; updated_at is held as the number of days before the call
score_freshness(repo_data) ==
  LET updated_at == Get(repo_data, "updated_at", NoInt)
  IN  IF updated_at = NoInt THEN 100
      ELSE IF updated_at <= 7 THEN 1000
      ELSE IF updated_at <= 30 THEN 800
      ELSE IF updated_at <= 90 THEN 600
      ELSE IF updated_at <= 365 THEN 400
      ELSE 200

Min(a, b) == IF a < b THEN a ELSE b

Max(a, b) == IF a > b THEN a ELSE b

\* _score_topics
score_topics(repo_data, keywords, excluded_topics) ==
  LET topics == Get(repo_data, "topics", <<>>)
  IN  IF topics = <<>> THEN 0
      ELSE IF \E e \in 1..Len(excluded_topics) : \E t \in 1..Len(topics) :
                 Lower(excluded_topics[e]) = Lower(topics[t])
           THEN -500
      ELSE LET hits == {k \in 1..Len(keywords) : \E t \in 1..Len(topics) :
                          \/ IsSubstr(Lower(keywords[k]), Lower(topics[t]))
                          \/ IsSubstr(Lower(topics[t]), Lower(keywords[k]))}
           IN  Min(200 * Cardinality(hits), 1000)

\* calculate_score: (final_score, reasoning); max_score sums the weights to 1.0
calculate_score(repo_data, preference) ==
  LET kw == score_keywords(repo_data, preference.keywords, preference.excluded_keywords)
      penalty == IF kw.excluded # <<>> THEN -500 ELSE 0
      language_score == score_language(repo_data, preference.languages)
      star_score == score_stars(repo_data, preference.min_stars, preference.max_stars)
      freshness_score == score_freshness(repo_data)
      topic_score == score_topics(repo_data, preference.keywords, preference.excluded_topics)
      total_score == 1000 * penalty + kw.score * 400 + language_score * 250
                     + star_score * 200 + freshness_score * 100 + topic_score * 50
      max_score == 400 + 250 + 200 + 100 + 50
      final_score == Max(0, Min(1000000, (total_score * 1000) \div max_score))
  IN  [score |-> final_score,
       reasoning |-> [matched_keywords |-> kw.matched, excluded_keywords |-> kw.excluded,
                      language_match |-> language_score > 0, star_score |-> star_score,
                      freshness_score |-> freshness_score, topic_bonus |-> topic_score,
                      exclusion_penalty |-> penalty, total_score |-> final_score]]

\* _passes_basic_filters without its min_stars test
passes_basic_filters_NoMinStars(repo_data, preference) ==
  LET stars == Get(repo_data, "stargazers_count", 0)
  IN  /\ ~(TruthyInt(preference.max_stars) /\ stars > preference.max_stars)
      /\ ~(Get(repo_data, "archived", FALSE) \/ Get(repo_data, "disabled", FALSE))

\* _passes_basic_filters
passes_basic_filters(repo_data, preference) ==
  LET stars == Get(repo_data, "stargazers_count", 0)
      created_at == Get(repo_data, "created_at", NoInt)
      updated_at == Get(repo_data, "updated_at", NoInt)
  IN  /\ ~(stars < preference.min_stars)
      /\ ~(TruthyInt(preference.max_stars) /\ stars > preference.max_stars)
      /\ ~(preference.created_after # NoInt /\ created_at # NoInt
             /\ created_at > preference.created_after)
      /\ ~(preference.updated_after # NoInt /\ updated_at # NoInt
             /\ updated_at > preference.updated_after)
      /\ ~(Get(repo_data, "archived", FALSE) \/ Get(repo_data, "disabled", FALSE))

\* results.sort(key=score, reverse=True): a stable insertion of x into a list
\* already in non-increasing score order, behind the entries of equal score
RECURSIVE InsertByScore(_, _)
InsertByScore(sorted, x) ==
  IF sorted = <<>> THEN <<x>>
  ELSE IF sorted[1].score >= x.score THEN <<sorted[1]>> \o InsertByScore(Tail(sorted), x)
  ELSE <<x>> \o sorted

\* no sort: the results in the order they were appended
SortByScore_InputOrder(results) ==
  results

RECURSIVE SortByScore(_)
SortByScore(results) ==
  IF results = <<>> THEN <<>>
  ELSE InsertByScore(SortByScore(SubSeq(results, 1, Len(results) - 1)), results[Len(results)])

\* filter_repositories without the score floor
filter_repositories_NoFloor(repos, preference) ==
  LET scored == [i \in 1..Len(repos) |->
                   LET c == calculate_score(repos[i], preference)
                   IN  [repo_data |-> repos[i], score |-> c.score, reasoning |-> c.reasoning]]
      kept == SelectSeq(scored, LAMBDA x : passes_basic_filters(x.repo_data, preference))
      results == SortByScore(kept)
  IN  SubSeq(results, 1, Min(Len(results), preference.max_recommendations))

\* filter_repositories
filter_repositories(repos, preference) ==
  LET scored == [i \in 1..Len(repos) |->
                   LET c == calculate_score(repos[i], preference)
                   IN  [repo_data |-> repos[i], score |-> c.score, reasoning |-> c.reasoning]]
      kept == SelectSeq(scored, LAMBDA x :
                 passes_basic_filters(x.repo_data, preference) /\ x.score > 100000)
      results == SortByScore(kept)
      max_recommendations == IF preference.max_recommendations = 0 THEN 10
                             ELSE preference.max_recommendations
  IN  SubSeq(results, 1, Min(Len(results), max_recommendations))

----------------------------------------------------------------------------
(* The tables the run reads: users, preferences; and the provider's answers *)

\* the most triggers in a behaviour
MaxRuns == 1

\* rows of table users: users 1, 2 and 3 have a row each; only user 1 has a
\* notification_email
Users ==
  {[id |-> 1, notification_email |-> "set"], [id |-> 2, notification_email |-> None],
   [id |-> 3, notification_email |-> None]}

\* the user ids a run is started for: 4 is an id whose row is gone when the run
\* looks it up
CallerIds == {1, 2, 3, 4}

ai == <<"a", "i">>
Py == <<"P", "y">>
Go == <<"G", "o">>

\* rows of table preferences, in id order: 1 and 2 are user 1's enabled ones,
\* 3 is user 1's disabled one, 4 is user 2's (with created_after set);
\* user 3 has none
Preferences ==
  << [id |-> 1, user_id |-> 1, enabled |-> TRUE, keywords |-> <<ai>>, languages |-> <<Py>>,
      min_stars |-> 10, max_stars |-> NoInt, excluded_keywords |-> <<>>,
      excluded_topics |-> <<>>, notification_channels |-> <<"email">>,
      max_recommendations |-> 10, created_after |-> NoInt, updated_after |-> NoInt],
     [id |-> 2, user_id |-> 1, enabled |-> TRUE, keywords |-> <<>>, languages |-> <<>>,
      min_stars |-> 10, max_stars |-> NoInt, excluded_keywords |-> <<>>,
      excluded_topics |-> <<>>, notification_channels |-> <<>>,
      max_recommendations |-> 10, created_after |-> NoInt, updated_after |-> NoInt],
     [id |-> 3, user_id |-> 1, enabled |-> FALSE, keywords |-> <<ai>>, languages |-> <<>>,
      min_stars |-> 10, max_stars |-> NoInt, excluded_keywords |-> <<>>,
      excluded_topics |-> <<>>, notification_channels |-> <<"email">>,
      max_recommendations |-> 10, created_after |-> NoInt, updated_after |-> NoInt],
     [id |-> 4, user_id |-> 2, enabled |-> TRUE, keywords |-> <<>>, languages |-> <<Go>>,
      min_stars |-> 10, max_stars |-> NoInt, excluded_keywords |-> <<>>,
      excluded_topics |-> <<>>, notification_channels |-> <<"email">>,
      max_recommendations |-> 10, created_after |-> 1000, updated_after |-> NoInt] >>

\* the preference_id a request may name: none, one of the rows, or no row's id
RequestedPreferenceIds == {NoInt, 1, 3, 4, 9}

\* the provider's items; the second is an archived repository
RepoA ==
  [id |-> 1, full_name |-> <<"o", "/", "a", "i">>, name |-> ai, language |-> Py,
   stargazers_count |-> 500, created_at |-> 400, updated_at |-> 3]

RepoB ==
  [id |-> 2, full_name |-> <<"o", "/", "g", "o">>, name |-> Go, language |-> Go,
   stargazers_count |-> 50, created_at |-> 400, updated_at |-> 40, archived |-> TRUE]

\* the items of a successful search response
ProviderItems(keywords, language) ==
  IF language = Py THEN <<RepoA>>
  ELSE IF language = Go THEN <<RepoB>>
  ELSE <<RepoA, RepoB>>

\* how the provider answers one request: 200, 403 with no quota remaining,
\* or a 5xx
Outcomes == {"ok", "ratelimit", "error"}

----------------------------------------------------------------------------
(* GitHubClient: one request, one search *)

\* _make_request: the parsed body, or the exception the status code raises
make_request(outcome, items) ==
  CASE outcome = "ok"        -> [raised |-> None, items |-> items]
    [] outcome = "ratelimit" -> [raised |-> "GitHubRateLimitError", items |-> <<>>]
    [] OTHER                 -> [raised |-> "ServiceUnavailableException", items |-> <<>>]

\* sorted(keywords, key=len): a stable insertion of k into a list already in
\* non-decreasing length order, behind the keywords of equal length
RECURSIVE InsertByLen(_, _)
InsertByLen(sorted, k) ==
  IF sorted = <<>> THEN <<k>>
  ELSE IF Len(sorted[1]) <= Len(k) THEN <<sorted[1]>> \o InsertByLen(Tail(sorted), k)
  ELSE <<k>> \o sorted

RECURSIVE SortByLen(_)
SortByLen(keywords) ==
  IF keywords = <<>> THEN <<>>
  ELSE InsertByLen(SortByLen(SubSeq(keywords, 1, Len(keywords) - 1)), keywords[Len(keywords)])

\* query_parts with a keyword term even for an empty keyword list
QueryParts_EmptyKeywordTerm(keywords, language, min_stars, created_after, updated_after) ==
  <<[part |-> "keywords", value |-> keywords]>>
  \o (IF min_stars > 0 THEN <<[part |-> "stars", value |-> min_stars]>> ELSE <<>>)
  \o (IF created_after # NoInt THEN <<[part |-> "created", value |-> created_after]>> ELSE <<>>)
  \o (IF updated_after # NoInt THEN <<[part |-> "pushed", value |-> updated_after]>> ELSE <<>>)
  \o <<[part |-> "fork", value |-> FALSE]>>

\* query_parts of search_repositories, the list that " ".join turns into the
\* query: the keywords joined by OR (the five shortest of more than five), the
\* language, stars:>=, created:>, pushed:> for the filters that are set, fork:false
QueryParts(keywords, language, min_stars, created_after, updated_after) ==
  (IF keywords = <<>> THEN <<>>
   ELSE IF Len(keywords) <= 5 THEN <<[part |-> "keywords", value |-> keywords]>>
   ELSE <<[part |-> "keywords", value |-> SubSeq(SortByLen(keywords), 1, 5)]>>)
  \o (IF language # <<>> THEN <<[part |-> "language", value |-> language]>> ELSE <<>>)
  \o (IF min_stars > 0 THEN <<[part |-> "stars", value |-> min_stars]>> ELSE <<>>)
  \o (IF created_after # NoInt THEN <<[part |-> "created", value |-> created_after]>> ELSE <<>>)
  \o (IF updated_after # NoInt THEN <<[part |-> "pushed", value |-> updated_after]>> ELSE <<>>)
  \o <<[part |-> "fork", value |-> FALSE]>>

\* the page loop of search_repositories from page on: a page of the provider's
\* answer is its outcome, its items and whether it is full with more to come
\* (len(repos) >= per_page and len(all_repos) < total_count). A rate limit
\* ends the loop and the pages so far are returned, any other exception
\* propagates
RECURSIVE PageLoop(_, _, _, _)
PageLoop(pages, page, max_pages, acc) ==
  IF page > max_pages THEN acc
  ELSE LET data == make_request(pages[page].outcome, pages[page].items)
           sent == [acc EXCEPT !.requests = @ + 1]
       IN  IF data.raised = "GitHubRateLimitError" THEN [sent EXCEPT !.limited = TRUE]
           ELSE IF data.raised # None THEN [sent EXCEPT !.raised = data.raised, !.repos = <<>>]
           ELSE IF data.items = <<>> THEN sent
           ELSE IF ~pages[page].full THEN [sent EXCEPT !.repos = @ \o data.items]
           ELSE PageLoop(pages, page + 1, max_pages, [sent EXCEPT !.repos = @ \o data.items])

\* search_repositories: the query it builds, the repos of its pages, the
\* number of requests it made
search_repositories(keywords, language, min_stars, created_after, updated_after, max_pages, pages) ==
  PageLoop(pages, 1, max_pages,
           [raised |-> None, repos |-> <<>>, limited |-> FALSE, requests |-> 0,
            query |-> QueryParts(keywords, language, min_stars, created_after, updated_after)])

----------------------------------------------------------------------------
(* JobExecutionService._fetch_repositories *)

\* chunks of five only: the keywords after the last full chunk are left out
KeywordChunks_DropsRemainder(keywords) ==
  IF keywords = <<>> THEN << <<>> >>
  ELSE [c \in 1..(Len(keywords) \div 5) |-> SubSeq(keywords, 5 * (c - 1) + 1, 5 * c)]

\* keywords[i:i + 5] for i in range(0, len(keywords), 5); [[]] without keywords
KeywordChunks(keywords) ==
  IF keywords = <<>> THEN << <<>> >>
  ELSE [c \in 1..((Len(keywords) + 4) \div 5) |->
          SubSeq(keywords, 5 * (c - 1) + 1, Min(5 * c, Len(keywords)))]

\* the searches of a preference, in order: <<language, keyword_chunk>>, with <<>>
\* as the language of a search without a language filter
RECURSIVE Searches(_, _)
Searches(languages, chunks) ==
  IF languages = <<>> THEN <<>>
  ELSE [c \in 1..Len(chunks) |-> <<Head(languages), chunks[c]>>]
         \o Searches(Tail(languages), chunks)

SearchesOf(preference) ==
  LET chunks == KeywordChunks(preference.keywords)
  IN  IF preference.languages # <<>> THEN Searches(preference.languages, chunks)
      ELSE [c \in 1..Len(chunks) |-> << <<>>, chunks[c] >>]

\* the search loops with break in place of continue
RECURSIVE SearchLoop_StopsOnFailure(_, _, _, _)
SearchLoop_StopsOnFailure(searches, preference, answers, acc) ==
  IF searches = <<>> THEN acc
  ELSE LET s == search_repositories(Head(searches)[2], Head(searches)[1], preference.min_stars,
                                    preference.created_after, preference.updated_after,
                                    IF preference.languages # <<>> THEN 1 ELSE 2, Head(answers))
           sent == [acc EXCEPT !.queries = Append(@, s.query), !.requests = @ + s.requests]
       IN  IF s.raised # None THEN [sent EXCEPT !.failed = @ + 1]
           ELSE SearchLoop_StopsOnFailure(Tail(searches), preference, Tail(answers),
                  [sent EXCEPT !.repos = @ \o s.repos, !.completed = @ + 1,
                               !.limited = @ + (IF s.limited THEN 1 ELSE 0)])

\* the two search loops: acc gathers repos, the queries sent and what was
\* logged; a search with a language asks for one page, one without for two
RECURSIVE SearchLoop(_, _, _, _)
SearchLoop(searches, preference, answers, acc) ==
  IF searches = <<>> THEN acc
  ELSE LET s == search_repositories(Head(searches)[2], Head(searches)[1], preference.min_stars,
                                    preference.created_after, preference.updated_after,
                                    IF preference.languages # <<>> THEN 1 ELSE 2, Head(answers))
           sent == [acc EXCEPT !.queries = Append(@, s.query), !.requests = @ + s.requests]
           acc1 == IF s.raised # None
                   THEN [sent EXCEPT !.failed = @ + 1]         \* except Exception: continue
                   ELSE [sent EXCEPT !.repos = @ \o s.repos, !.completed = @ + 1,
                                     !.limited = @ + (IF s.limited THEN 1 ELSE 0)]
       IN  SearchLoop(Tail(searches), preference, Tail(answers), acc1)

\* the provider's answers to the searches of a run: one page each, not full
ShortAnswers(searches, outcomes) ==
  [k \in 1..Len(searches) |->
     << [outcome |-> outcomes[k], items |-> ProviderItems(searches[k][2], searches[k][1]),
         full |-> FALSE] >>]

\* no removal of duplicates
UniqueRepos_KeepsAll(repos, seen_ids) ==
  repos

\* the removal of duplicates; repo["id"] raises KeyError on an item without id
RECURSIVE UniqueRepos(_, _)
UniqueRepos(repos, seen_ids) ==
  IF repos = <<>> THEN <<>>
  ELSE IF Head(repos)["id"] \in seen_ids THEN UniqueRepos(Tail(repos), seen_ids)
  ELSE <<Head(repos)>> \o UniqueRepos(Tail(repos), seen_ids \cup {Head(repos)["id"]})

\* how the freshness query of the cached path ends. Its filter is
\*   (fetched_at > utcnow() - created_after) if created_after else (utcnow() - 1h):
\* without created_after a datetime is handed to filter(), which raises; with it a
\* column is compared with a timedelta, which the database may reject or evaluate
\* either way
FreshnessAnswers(preference) ==
  IF preference.created_after = NoInt THEN {"raise"} ELSE {"raise", "all", "none"}

\* the whole method: what it raised, the repos it returns, and what it logged
fetch_repositories(preference, force_refresh, freshness, answers, rows) ==
  LET fresh == [raised |-> None, repos |-> <<>>, completed |-> 0, failed |-> 0, limited |-> 0,
                queries |-> <<>>, requests |-> 0, fetched |-> <<>>]
      recent_repos == IF freshness = "all" THEN SubSeq(rows, 1, Min(Len(rows), 100)) ELSE <<>>
      loop == SearchLoop(SearchesOf(preference), preference, answers, fresh)
      searched == [loop EXCEPT !.fetched = loop.repos]
  IN  IF ~force_refresh /\ freshness = "raise"
      THEN [fresh EXCEPT !.raised = "ArgumentError"]
      ELSE IF ~force_refresh /\ recent_repos # <<>>
      THEN [fresh EXCEPT !.repos = [i \in 1..Len(recent_repos) |->
                                      parse_repo_data(recent_repos[i].github_data)]]
      ELSE [searched EXCEPT !.repos = UniqueRepos(@, {})]

----------------------------------------------------------------------------
(* NotificationService.send_recommendations_notification *)

Channels == <<"email", "telegram", "slack", "wechat">>

\* the user's destination for a channel, None when not configured
Destination(user, channel) ==
  CASE channel = "email"    -> Get(user, "notification_email", None)
    [] channel = "telegram" -> Get(user, "telegram_chat_id", None)
    [] channel = "slack"    -> Get(user, "slack_webhook_url", None)
    [] OTHER                -> Get(user, "wechat_webhook_url", None)

InSeq(x, s) == \E i \in 1..Len(s) : s[i] = x

\* how one channel's send ends: it returns True, it returns False, it raises
ChannelOutcomes == {"ok", "false", "raise"}

\* a dispatch that gives up at the first send that raises
RECURSIVE ChannelLoop_StopsOnRaise(_, _, _, _, _)
ChannelLoop_StopsOnRaise(channels, user, preference, outcomes, acc) ==
  IF channels = <<>> THEN acc
  ELSE LET c == Head(channels)
           tried == InSeq(c, preference.notification_channels) /\ Destination(user, c) # None
           acc1 == IF tried
                   THEN [attempted |-> Append(acc.attempted, c),
                         sent_channels |-> IF outcomes[c] = "ok"
                                           THEN Append(acc.sent_channels, c)
                                           ELSE acc.sent_channels]
                   ELSE acc
       IN  IF tried /\ outcomes[c] = "raise" THEN acc1
           ELSE ChannelLoop_StopsOnRaise(Tail(channels), user, preference, outcomes, acc1)

\* the four channel blocks in turn: a channel is attempted when the preference
\* requests it and the user has a destination for it; its exception is caught
\* and logged, and only a send that returned True is appended to sent_channels
RECURSIVE ChannelLoop(_, _, _, _, _)
ChannelLoop(channels, user, preference, outcomes, acc) ==
  IF channels = <<>> THEN acc
  ELSE LET c == Head(channels)
           acc1 == IF InSeq(c, preference.notification_channels) /\ Destination(user, c) # None
                   THEN [attempted |-> Append(acc.attempted, c),
                         sent_channels |-> IF outcomes[c] = "ok"
                                           THEN Append(acc.sent_channels, c)
                                           ELSE acc.sent_channels]
                   ELSE acc
       IN  ChannelLoop(Tail(channels), user, preference, outcomes, acc1)

\* the assignments of _update_recommendations_notification_status
StampSent(rows, u, recs, sent_channels, t) ==
  [i \in 1..Len(rows) |->
     IF rows[i].user_id = u /\ InSeq(rows[i].repo_id, recs)
     THEN [rows[i] EXCEPT !.sent_channels = sent_channels,
                          !.sent_at = IF sent_channels # <<>> THEN t ELSE Null]
     ELSE rows[i]]

\* _update_recommendations_notification_status: a commit that raises is logged
\* and rolled back, and the rows stay as they were
update_recommendations_notification_status(rows, u, recs, sent_channels, t, commit_raises) ==
  IF commit_raises THEN rows ELSE StampSent(rows, u, recs, sent_channels, t)

\* the whole dispatch: whether it raised (_prepare_notification_content is
\* outside every try), the table after it, the channels it attempted and the
\* sent_channels it returns
send_recommendations_notification(rows, users, u, preference, recs, env, t) ==
  LET found == {x \in users : x.id = u}
      user == CHOOSE x \in found : TRUE
      none == [raised |-> FALSE, rows |-> rows, ret |-> <<>>, attempted |-> <<>>]
      loop == ChannelLoop(Channels, user, preference, env.outcomes,
                          [attempted |-> <<>>, sent_channels |-> <<>>])
  IN  IF recs = <<>> \/ found = {} THEN none
      ELSE IF env.prepare_raises THEN [none EXCEPT !.raised = TRUE]
      ELSE [raised |-> FALSE,
            rows |-> update_recommendations_notification_status(
                       rows, u, recs, loop.sent_channels, t, env.commit_raises),
            ret |-> loop.sent_channels, attempted |-> loop.attempted]

----------------------------------------------------------------------------
(* JobExecutionService.execute_recommendation_job and the trigger endpoint *)

\* d[k] = v on a dict
Put(d, k, v) == [x \in DOMAIN d \cup {k} |-> IF x = k THEN v ELSE d[x]]

\* d[k] += n
Add(d, k, n) == [d EXCEPT ![k] = @ + n]

\* f"notifications_sent_{preference.id}"
NotificationsSentKey(id) ==
  CASE id = 1 -> "notifications_sent_1" [] id = 2 -> "notifications_sent_2"
    [] id = 3 -> "notifications_sent_3" [] OTHER -> "notifications_sent_4"

InitialStats ==
  [repos_fetched |-> 0, repos_cached |-> 0, repos_filtered |-> 0,
   recommendations_generated |-> 0, preferences_processed |-> 0, errors_count |-> 0]

\* JobRun(user_id=..., status="queued", preference_id=...); started_at takes its
\* server default, counters its default dict
NewJobRun(u, p, t) ==
  [user_id |-> u, status |-> "queued", started_at |-> t, finished_at |-> Null,
   error_message |-> None, counters |-> <<>>, preference_id |-> p]

\* the locals before the body binds them
IdleLoc ==
  [preferences |-> <<>>, i |-> 0, total_stats |-> <<>>, bound |-> FALSE, repos |-> <<>>,
   cached_repos |-> <<>>, filtered_repos |-> <<>>, recommendations |-> <<>>]

NoArgs == [user_id |-> 0, job_run_id |-> 0, preference_id |-> NoInt,
           force_refresh |-> FALSE, via |-> "none"]

NoResult == [raised |-> None]

NoResponse == [status |-> "none"]

\* what the run logged, as the sets of preference ids each message names
NoEvents ==
  [search_completed |-> {}, search_failed |-> {}, rate_limited |-> {},
   errored |-> {}, stopped |-> {}, processed |-> {}, dispatched |-> {}, attempted |-> {}]

\* a resolution that forgets whose preference it is
ResolvePreferences_AnyUser(u, p) ==
  SelectSeq(Preferences, LAMBDA x :
     (TruthyInt(p) \/ x.user_id = u) /\ pref_enabled[x.id] /\ (TruthyInt(p) => x.id = p))

\* a resolution that forgets the enabled flag
ResolvePreferences_IgnoresEnabled(u, p) ==
  SelectSeq(Preferences, LAMBDA x :
     x.user_id = u /\ (TruthyInt(p) => x.id = p))

\* a resolution that reads the flag the row was created with
ResolvePreferences_StaleEnabled(u, p) ==
  SelectSeq(Preferences, LAMBDA x :
     x.user_id = u /\ x.enabled /\ (TruthyInt(p) => x.id = p))

\* the preferences query: the user's rows enabled now, and only the named one
\* when a preference_id is given
ResolvePreferences(u, p) ==
  SelectSeq(Preferences, LAMBDA x :
     x.user_id = u /\ pref_enabled[x.id] /\ (TruthyInt(p) => x.id = p))

\* a failure mark that forgets the message
MarkFailed_NoMessage(row, message, l, t) ==
  [row EXCEPT !.status = "failed", !.finished_at = t,
              !.counters = IF l.bound THEN l.total_stats ELSE <<>>]

\* the outer except: the run is marked failed and the exception re-raised
MarkFailed(row, message, l, t) ==
  [row EXCEPT !.status = "failed", !.finished_at = t, !.error_message = message,
              !.counters = IF l.bound THEN l.total_stats ELSE <<>>]

\* a completion that forgets finished_at
MarkCompleted_NoFinishedAt(row, l, t) ==
  [row EXCEPT !.status = "completed", !.counters = l.total_stats]

\* the statements after the loop
MarkCompleted(row, l, t) ==
  [row EXCEPT !.status = "completed", !.finished_at = t, !.counters = l.total_stats]

JobIdle ==
  /\ job_runs = <<>>
  /\ pc = "idle"
  /\ args = NoArgs
  /\ loc = IdleLoc
  /\ client_open = FALSE
  /\ result = NoResult
  /\ response = NoResponse
  /\ events = NoEvents

----------------------------------------------------------------------------
(* Direct calls of the two store methods, with any arguments *)

\* the (repo_id, score) of the scored repos a direct call may pass
StoreScored == {<<1, 300>>, <<1, 800>>, <<2, 300>>}

StoreItems ==
  {[repo_data |-> [repo_id |-> x[1]], score |-> x[2], reasoning |-> [total_score |-> x[2]]] :
     x \in StoreScored}

StoreSnapshots ==
  {[id |-> r, full_name |-> <<"o", "/", "r">>, name |-> <<"r">>, stargazers_count |-> st,
    created_at |-> 400, updated_at |-> 3] : r \in RepoIds, st \in {5, 500}}
  \cup {[id |-> r, stargazers_count |-> 5] : r \in {1}}     \* no full_name: malformed

\* what the caller passed last for repo r in a list of items: <<it>>, or <<>> when
\* the list names r nowhere
RECURSIVE LastFor(_, _, _)
LastFor(items, r, key) ==
  IF items = <<>> THEN <<>>
  ELSE LET it == items[Len(items)]
       IN  IF key[it] = r THEN <<it>> ELSE LastFor(SubSeq(items, 1, Len(items) - 1), r, key)

ItemRepo == [it \in StoreItems |-> it.repo_data["repo_id"]]

NoCall == [op |-> "none"]

SaveRecommendationsCall(u, p, j, items) ==
  /\ now < MaxCalls
  /\ LET r == save_recommendations(recommendations, u, p, j, items, now + 1)
     IN  /\ recommendations' = r.rows
         /\ last_call' = [op |-> "save", user_id |-> u, preference_id |-> p,
                          job_run_id |-> j, raised |-> r.raised, n |-> Len(r.ret),
                          last |-> [x \in RepoIds |-> LastFor(items, x, ItemRepo)]]
  /\ now' = now + 1
  /\ UNCHANGED <<pref_enabled, sessions, autoflush, db_faulty, repo_cache>>
  /\ UNCHANGED jobvars

SnapRepo == [sn \in StoreSnapshots |-> sn["id"]]

CacheRepositoriesCall(repos) ==
  /\ now < MaxCalls
  /\ LET r == cache_repositories(repo_cache, repos, now + 1)
         wf == SelectSeq(repos, LAMBDA sn : ~ParseRaises(sn))
     IN  /\ repo_cache' = r.rows
         /\ last_call' = [op |-> "cache", raised |-> r.raised, n |-> Len(r.ret),
                          last |-> [x \in RepoIds |-> LastFor(wf, x, SnapRepo)],
                          ret |-> r.ret, well_formed |-> [k \in 1..Len(wf) |-> wf[k]["id"]],
                          malformed |-> Len(repos) - Len(wf),
                          alone |-> cache_repositories(repo_cache, wf, now + 1)]
  /\ now' = now + 1
  /\ UNCHANGED <<pref_enabled, sessions, autoflush, db_faulty, recommendations>>
  /\ UNCHANGED jobvars

StoreInit ==
  /\ pref_enabled = [k \in 1..Len(Preferences) |-> Preferences[k].enabled]
  /\ sessions = <<>>
  /\ autoflush \in BOOLEAN
  /\ db_faulty = FALSE
  /\ now = 0
  /\ repo_cache = <<>>
  /\ recommendations = <<>>
  /\ last_call = NoCall
  /\ JobIdle

\* the (preference_id, job_run_id) pairs of the direct calls
CallOrigins == {<<1, 1>>, <<2, 2>>}

RecBatches == SeqsUpTo(StoreItems, MaxBatch)

\* a malformed snapshot between two well-formed ones, of two repos and of one
MixedBatches ==
  LET snapshot(r, st) == [id |-> r, full_name |-> <<"o", "/", "r">>, name |-> <<"r">>,
                          stargazers_count |-> st, created_at |-> 400, updated_at |-> 3]
      malformed == [id |-> 1, stargazers_count |-> 5]
  IN  { <<snapshot(2, 5), malformed, snapshot(1, 500)>>,
        <<snapshot(1, 5), malformed, snapshot(1, 500)>> }

CacheBatches == SeqsUpTo(StoreSnapshots, MaxBatch) \cup MixedBatches

RecNext ==
  \E u \in UserIds, o \in CallOrigins, items \in RecBatches :
     SaveRecommendationsCall(u, o[1], o[2], items)

CacheNext ==
  \E repos \in CacheBatches : CacheRepositoriesCall(repos)

\* any sequence of save_recommendations calls
SpecRec == StoreInit /\ [][RecNext]_vars

\* any sequence of _cache_repositories calls
SpecCache == StoreInit /\ [][CacheNext]_vars

----------------------------------------------------------------------------
(* Direct calls of the engine's pure methods, with any arguments *)

\* the longest repository list handed to one filter_repositories call
MaxRepos == 2

ml == <<"m", "l">>
py == <<"p", "y">>
Pyx == <<"P", "y", "x">>
ai_framework == <<"a", "i", " ", "f", "r", "a", "m", "e", "w", "o", "r", "k">>

\* a repository dict as _repo_cache_to_dict builds it
CachedDict(id, name, language, topics, stars, updated_at) ==
  [repo_id |-> id, full_name |-> <<"o", "/">> \o name, name |-> name, description |-> <<>>,
   topics |-> topics, language |-> language, stargazers_count |-> stars,
   is_archived |-> "false", is_disabled |-> "false", created_at |-> 400,
   updated_at |-> updated_at, fetched_at |-> 1]

\* the repositories of the lists a direct filter_repositories call is given: the
\* fourth carries the provider's own archived and disabled keys
FilterRepos ==
  { CachedDict(1, ai, Py, <<>>, 15000, 3),
    CachedDict(2, Go, Go, <<>>, 50, 40),
    CachedDict(3, ai, Py, <<>>, 5, 3),
    [CachedDict(4, ai, Go, <<>>, 500, 3) EXCEPT !.is_archived = "true"]
       @@ [archived |-> TRUE, disabled |-> FALSE],
    CachedDict(5, ai, <<>>, <<>>, 150, 400) }

\* a preference as the engine reads it
EnginePreference(keywords, languages, min_stars, max_stars, ek, et, max_recommendations) ==
  [id |-> 1, user_id |-> 1, enabled |-> TRUE, keywords |-> keywords, languages |-> languages,
   min_stars |-> min_stars, max_stars |-> max_stars, excluded_keywords |-> ek,
   excluded_topics |-> et, notification_channels |-> <<>>,
   max_recommendations |-> max_recommendations, created_after |-> NoInt,
   updated_after |-> NoInt]

\* max_stars is None or >= 0, min_stars >= 0, max_recommendations in 1..50
\* (PreferenceRequest)
FilterPreferences ==
  { EnginePreference(ke[1], <<>>, mn, mx, ke[2], <<>>, mr) :
      ke \in {<< <<>>, <<>> >>, << <<ai>>, <<>> >>, << <<ai>>, <<Go>> >>},
      mn \in {0, 10}, mx \in {NoInt, 0, 100}, mr \in {1, 2} }

\* the repositories a direct calculate_score call is given
ScoreRepos ==
  { [CachedDict(1, n, l, tp, st, u) EXCEPT !.description = d] :
      n \in {ai, Go}, d \in {<<>>, ai_framework}, l \in {<<>>, Py}, tp \in {<<>>, <<Go>>, <<ai>>},
      st \in {5, 50, 15000}, u \in {3, 40} }

ScorePreferences ==
  { EnginePreference(k, l, mn, NoInt, ek, et, 10) :
      k \in {<<>>, <<ai>>, <<ai, ml>>}, l \in {<<>>, <<Py>>}, mn \in {10, 50},
      ek \in {<<>>, <<Go>>}, et \in {<<>>, <<Go>>} }

\* the arguments of a direct _score_language call; a dict without the key
\* language and one whose language is None are alike to repo_data.get
LanguageRepos ==
  {[repo_id |-> 1]} \cup {[repo_id |-> 1, language |-> l] : l \in {<<>>, Py, py, Pyx, Go}}

LanguageLists == {<<>>, <<Py>>, <<py>>, <<Go>>, <<Go, Py>>}

FilterLists == SeqsUpTo(FilterRepos, MaxRepos)

\* the filter and save statements of a run's iteration, on any cached dicts:
\* filtered_repos = filter_repositories(...); save_recommendations(filtered_repos)
FilterAndSaveCall(repos, preference) ==
  /\ last_call = NoCall
  /\ job_runs = <<>>
  /\ LET filtered_repos == filter_repositories(repos, preference)
         s == save_recommendations(recommendations, 1, preference.id, 1, filtered_repos, now + 1)
     IN  /\ recommendations' = s.rows
         /\ last_call' = [op |-> "filter", repos |-> repos, preference |-> preference,
                          out |-> filtered_repos, raised |-> s.raised]
  /\ now' = now + 1
  /\ UNCHANGED <<pref_enabled, sessions, autoflush, db_faulty, repo_cache>>
  /\ UNCHANGED jobvars

CalculateScoreCall(repo_data, preference) ==
  /\ last_call = NoCall
  /\ job_runs = <<>>
  /\ last_call' = [op |-> "score", repo_data |-> repo_data, preference |-> preference,
                   out |-> calculate_score(repo_data, preference)]
  /\ UNCHANGED <<pref_enabled, sessions, autoflush, db_faulty, now, repo_cache, recommendations>>
  /\ UNCHANGED jobvars

ScoreLanguageCall(repo_data, preferred_languages) ==
  /\ last_call = NoCall
  /\ job_runs = <<>>
  /\ last_call' = [op |-> "language", repo_data |-> repo_data,
                   preferred_languages |-> preferred_languages,
                   out |-> score_language(repo_data, preferred_languages)]
  /\ UNCHANGED <<pref_enabled, sessions, autoflush, db_faulty, now, repo_cache, recommendations>>
  /\ UNCHANGED jobvars

FilterNext ==
  \E repos \in FilterLists, preference \in FilterPreferences :
     FilterAndSaveCall(repos, preference)

ScoreNext ==
  \/ \E repo_data \in ScoreRepos, preference \in ScorePreferences :
        CalculateScoreCall(repo_data, preference)
  \/ \E repo_data \in LanguageRepos, preferred_languages \in LanguageLists :
        ScoreLanguageCall(repo_data, preferred_languages)

\* one filter_repositories call, with its save, on any list and preference
SpecFilter == StoreInit /\ [][FilterNext]_vars

\* one calculate_score or _score_language call on any repository and preference
SpecScore == StoreInit /\ [][ScoreNext]_vars

----------------------------------------------------------------------------
(* Two calculate_score calls on the same repository and preference, the     *)
(* second some days after the first and on a store that may have changed    *)

\* the most days between the two calls
MaxElapsed == 5

\* the same repo_data at a call made `days` later: _score_freshness takes
\* (utcnow() - updated_at).days, which has grown by the days that passed
SeenAfter(repo_data, days) ==
  IF Get(repo_data, "updated_at", NoInt) = NoInt THEN repo_data
  ELSE [repo_data EXCEPT !.updated_at = @ + days]

FirstScore(repo_data, preference) ==
  /\ last_call = NoCall
  /\ job_runs = <<>>
  /\ last_call' = [op |-> "rescore", repo_data |-> repo_data, preference |-> preference,
                   elapsed |-> 0, first |-> calculate_score(repo_data, preference),
                   second |-> <<>>]
  /\ UNCHANGED <<pref_enabled, sessions, autoflush, db_faulty, now, repo_cache, recommendations>>
  /\ UNCHANGED jobvars

\* a day passes between the two calls
DayPasses ==
  /\ last_call.op = "rescore"
  /\ last_call.second = <<>>
  /\ last_call.elapsed < MaxElapsed
  /\ last_call' = [last_call EXCEPT !.elapsed = @ + 1]
  /\ UNCHANGED <<pref_enabled, sessions, autoflush, db_faulty, now, repo_cache, recommendations>>
  /\ UNCHANGED jobvars

\* the first score is saved as a recommendation between the two calls
SavedBetween ==
  /\ last_call.op = "rescore"
  /\ last_call.second = <<>>
  /\ recommendations = <<>>
  /\ recommendations' =
       save_recommendations(recommendations, 1, 1, 1,
                            << [repo_data |-> last_call.repo_data,
                                score |-> last_call.first.score,
                                reasoning |-> last_call.first.reasoning] >>, now + 1).rows
  /\ now' = now + 1
  /\ UNCHANGED <<pref_enabled, sessions, autoflush, db_faulty, repo_cache, last_call>>
  /\ UNCHANGED jobvars

SecondScore ==
  /\ last_call.op = "rescore"
  /\ last_call.second = <<>>
  /\ last_call' = [last_call EXCEPT
                     !.second = << calculate_score(SeenAfter(last_call.repo_data,
                                                             last_call.elapsed),
                                                   last_call.preference) >>]
  /\ UNCHANGED <<pref_enabled, sessions, autoflush, db_faulty, now, repo_cache, recommendations>>
  /\ UNCHANGED jobvars

\* repositories updated 3, 40 and 362 days before the first call, and one with
\* no updated_at
RescoreNext ==
  \/ \E r \in {x \in ScoreRepos : x.stargazers_count = 50 /\ x.description = <<>>
                                   /\ x.updated_at = 3},
        u \in {NoInt, 3, 40, 362},
        preference \in {p \in ScorePreferences : p.min_stars = 10 /\ p.excluded_topics = <<>>} :
        FirstScore([r EXCEPT !.updated_at = u], preference)
  \/ DayPasses
  \/ SavedBetween
  \/ SecondScore

SpecRescore == StoreInit /\ [][RescoreNext]_vars

----------------------------------------------------------------------------
(* Direct calls of _fetch_repositories with force_refresh, with any         *)
(* preference and any answers of the provider                               *)

\* the longest keyword list of a preference handed to _fetch_repositories
MaxKeywords == 11

\* the i-th keyword of the lists: i letters, so that no two are equal
Keyword(i) == [j \in 1..i |-> "k"]

\* keyword lists of every length up to MaxKeywords, shortest keyword first and
\* longest keyword first
KeywordLists ==
  {[i \in 1..n |-> Keyword(i)] : n \in 0..MaxKeywords}
    \cup {[i \in 1..n |-> Keyword(n + 1 - i)] : n \in 0..MaxKeywords}

LanguageOrders == {<<>>, <<Py>>, <<Py, Go>>, <<Go, Py>>}

\* min_stars, created_after, updated_after: none set, each set, all set
SearchFilters == {<<0, NoInt, NoInt>>, <<10, NoInt, NoInt>>, <<0, 1000, NoInt>>, <<10, 1000, 30>>}

SearchPreference(k, l, f) ==
  [EnginePreference(k, l, f[1], NoInt, <<>>, <<>>, 10)
     EXCEPT !.created_after = f[2], !.updated_after = f[3]]

\* every keyword list with every language list, and every choice of filters
\* with no or one keyword and no or one language
FetchPreferences ==
  { SearchPreference(k, l, <<10, NoInt, NoInt>>) : k \in KeywordLists, l \in LanguageOrders }
    \cup { SearchPreference(k, l, f) :
             k \in {<<>>, <<Keyword(1)>>}, l \in {<<>>, <<Py>>}, f \in SearchFilters }

\* the first repository as a later request finds it, with one more star
RepoA2 == [RepoA EXCEPT !.stargazers_count = 501]

Page(outcome, items, full) == [outcome |-> outcome, items |-> items, full |-> full]

\* the provider's answers to the pages of one search
PageAnswers ==
  { << Page("ok", <<RepoA>>, FALSE), Page("ok", <<>>, FALSE) >>,
    << Page("ok", <<RepoA2, RepoB>>, TRUE), Page("ok", <<RepoB, RepoA>>, FALSE) >>,
    << Page("ok", <<RepoB>>, TRUE), Page("ratelimit", <<>>, FALSE) >>,
    << Page("ok", <<RepoB>>, TRUE), Page("error", <<>>, FALSE) >>,
    << Page("ok", <<>>, FALSE), Page("ok", <<>>, FALSE) >>,
    << Page("ratelimit", <<>>, FALSE), Page("ok", <<>>, FALSE) >>,
    << Page("error", <<>>, FALSE), Page("ok", <<>>, FALSE) >> }

UsualAnswers ==
  { << Page("ok", <<RepoA>>, FALSE), Page("ok", <<>>, FALSE) >>,
    << Page("ok", <<RepoA2, RepoB>>, TRUE), Page("ok", <<RepoB, RepoA>>, FALSE) >> }

\* the answers to n searches: the same usual answer to all but one of them
AnswersTo(n) ==
  {[k \in 1..n |-> IF k = p THEN y ELSE x] : x \in UsualAnswers, y \in PageAnswers, p \in 1..n}

FetchRepositoriesCall(preference, answers) ==
  /\ last_call = NoCall
  /\ job_runs = <<>>
  /\ last_call' = [op |-> "fetch", preference |-> preference, answers |-> answers,
                   out |-> fetch_repositories(preference, TRUE, "none", answers, repo_cache)]
  /\ UNCHANGED <<pref_enabled, sessions, autoflush, db_faulty, now, repo_cache, recommendations>>
  /\ UNCHANGED jobvars

FetchNext ==
  \E preference \in FetchPreferences :
     \E answers \in AnswersTo(Len(SearchesOf(preference))) :
        FetchRepositoriesCall(preference, answers)

\* one _fetch_repositories call that goes to the provider
SpecFetch == StoreInit /\ [][FetchNext]_vars

----------------------------------------------------------------------------
(* Direct calls of _make_request, with any status code and rate-limit headers *)

\* _make_request on a response with the given status code and headers: the
\* exception it raises, None when it returns the body. An absent header reads
\* as 0; raise_for_status raises on 4xx and 5xx, and its handler re-raises by
\* the status code alone
make_request_status(status_code, headers) ==
  LET remaining == Get(headers, "X-RateLimit-Remaining", 0)
      reset_time == Get(headers, "X-RateLimit-Reset", 0)
  IN  IF status_code = 403 /\ remaining = 0
      THEN [raised |-> "GitHubRateLimitError", reset_time |-> reset_time]
      ELSE IF status_code < 400 THEN [raised |-> None]
      ELSE IF status_code = 403
      THEN [raised |-> "GitHubRateLimitError", reset_time |-> reset_time]
      ELSE IF status_code >= 500 THEN [raised |-> "ServiceUnavailableException"]
      ELSE [raised |-> "BadRequestException"]

MakeRequestCall(status_code, headers) ==
  /\ job_runs = <<>>
  /\ last_call' = [op |-> "request", status_code |-> status_code, headers |-> headers,
                   out |-> make_request_status(status_code, headers)]
  /\ UNCHANGED <<pref_enabled, sessions, autoflush, db_faulty, now, repo_cache, recommendations>>
  /\ UNCHANGED jobvars

\* a response of any of the provider's status codes, with each rate-limit
\* header absent or present
RequestNext ==
  /\ last_call = NoCall
  /\ \E status_code \in {200, 201, 400, 401, 403, 404, 422, 429, 500, 502, 503},
        remaining \in {NoInt, 0, 1, 59}, reset \in {NoInt, 1700, 1800} :
        MakeRequestCall(status_code,
          [h \in (IF remaining = NoInt THEN {} ELSE {"X-RateLimit-Remaining"})
                   \cup (IF reset = NoInt THEN {} ELSE {"X-RateLimit-Reset"}) |->
             IF h = "X-RateLimit-Remaining" THEN remaining ELSE reset])

\* one _make_request call
SpecRequest == StoreInit /\ [][RequestNext]_vars

----------------------------------------------------------------------------
(* Direct calls of send_recommendations_notification, with any user, any
   requested channels and any outcome of each channel's send *)

\* a row of table users with the destinations of d configured
NotifyUser(id, d) ==
  [id |-> id,
   notification_email |-> IF "email" \in d THEN "set" ELSE None,
   telegram_chat_id   |-> IF "telegram" \in d THEN "set" ELSE None,
   slack_webhook_url  |-> IF "slack" \in d THEN "set" ELSE None,
   wechat_webhook_url |-> IF "wechat" \in d THEN "set" ELSE None]

ChannelSet == {Channels[k] : k \in 1..Len(Channels)}

\* preference.notification_channels: every set of channels in the order of the
\* settings form, one list in another order, one with a name no block knows
ChannelRequests ==
  {SelectSeq(Channels, LAMBDA c : c \in S) : S \in SUBSET ChannelSet}
    \cup {<<"wechat", "email">>, <<"sms", "slack">>}

\* what a dispatch meets: how the send of each channel ends, the content
\* prepared or not, the stamps committed or not
NotifyEnvs ==
  [outcomes : [ChannelSet -> ChannelOutcomes], prepare_raises : {FALSE},
   commit_raises : BOOLEAN]
    \cup [outcomes : {[c \in ChannelSet |-> "ok"]}, prepare_raises : {TRUE},
          commit_raises : {FALSE}]

\* user 1's recommendation of repository r, stamped by an earlier dispatch or not
NotifyRow(r, sent) ==
  [NewRecommendation(1, [repo_data |-> [repo_id |-> r], score |-> 300,
                         reasoning |-> [total_score |-> 300]], 1, 1, 1)
     EXCEPT !.sent_channels = sent, !.sent_at = IF sent = <<>> THEN Null ELSE 1]

\* table recommendations before the call
NotifyTables ==
  { <<NotifyRow(1, <<>>), NotifyRow(2, <<>>)>>,
    <<NotifyRow(1, <<"email", "slack">>), NotifyRow(2, <<>>)>> }

NotifyInit ==
  /\ pref_enabled = [k \in 1..Len(Preferences) |-> Preferences[k].enabled]
  /\ sessions = <<>>
  /\ autoflush = TRUE
  /\ db_faulty = FALSE
  /\ now = 1
  /\ repo_cache = <<>>
  /\ recommendations \in NotifyTables
  /\ last_call = NoCall
  /\ JobIdle

NotifyCall(users, u, channels, recs, env) ==
  /\ job_runs = <<>>
  /\ LET preference == [Preferences[1] EXCEPT !.notification_channels = channels]
         n == send_recommendations_notification(recommendations, users, u, preference, recs,
                                                env, now + 1)
     IN  /\ recommendations' = n.rows
         /\ last_call' = [op |-> "notify", users |-> users, user_id |-> u,
                          channels |-> channels, recs |-> recs, env |-> env,
                          raised |-> n.raised, ret |-> n.ret, attempted |-> n.attempted]
  /\ now' = now + 1
  /\ UNCHANGED <<pref_enabled, sessions, autoflush, db_faulty, repo_cache>>
  /\ UNCHANGED jobvars

\* every dispatch of both rows for user 1, whose row has any set of
\* destinations; and the dispatches of no row, of one row, and for a user
\* whose row is gone, with every send succeeding
NotifyNext ==
  /\ last_call = NoCall
  /\ \/ \E d \in SUBSET ChannelSet, channels \in ChannelRequests, env \in NotifyEnvs :
           NotifyCall({NotifyUser(1, d)}, 1, channels, <<1, 2>>, env)
     \/ \E d \in SUBSET ChannelSet, u \in {1, 2}, recs \in {<<>>, <<1>>, <<1, 2>>},
           commit_raises \in BOOLEAN :
           NotifyCall({NotifyUser(1, d)}, u, Channels, recs,
                      [outcomes |-> [c \in ChannelSet |-> "ok"], prepare_raises |-> FALSE,
                       commit_raises |-> commit_raises])

\* one send_recommendations_notification call
SpecNotify == NotifyInit /\ [][NotifyNext]_vars

----------------------------------------------------------------------------
(* The run, step by step *)

\* trigger_recommendation_run up to the await: the job row is created queued
Trigger(u, p, force_refresh) ==
  /\ pc = "idle"
  /\ Len(job_runs) < MaxRuns
  /\ job_runs' = Append(job_runs, NewJobRun(u, p, now + 1))
  /\ args' = [user_id |-> u, job_run_id |-> Len(job_runs) + 1, preference_id |-> p,
              force_refresh |-> force_refresh, via |-> "trigger"]
  /\ pc' = "called"
  /\ loc' = IdleLoc
  /\ result' = NoResult
  /\ response' = NoResponse
  /\ events' = NoEvents
  /\ now' = now + 1
  /\ UNCHANGED <<pref_enabled, sessions, autoflush, db_faulty, repo_cache, recommendations, last_call, client_open>>

\* how a commit of the job row may end: it raises only on a faulty database
CommitRaises == IF db_faulty THEN BOOLEAN ELSE {FALSE}

\* the outer except after `message` was raised in the try: the row is marked
\* failed and committed, and the exception re-raised; when that commit raises
\* too, the row stays as last committed and the commit's exception propagates
Handler(message, handler_commit_raises) ==
  /\ job_runs' = (IF handler_commit_raises THEN job_runs
                  ELSE [job_runs EXCEPT ![args.job_run_id] =
                          MarkFailed(@, message, loc, now + 1)])
  /\ result' = [raised |-> IF handler_commit_raises THEN "OperationalError" ELSE message]
  /\ pc' = "done"

\* the job row lookup and the first statements of the try: status running
Start ==
  /\ pc = "called"
  /\ IF args.job_run_id \in 1..Len(job_runs)
     THEN \E commit_raises \in CommitRaises, handler_commit_raises \in CommitRaises :
            IF commit_raises
            THEN Handler("OperationalError", handler_commit_raises)
            ELSE /\ job_runs' = [job_runs EXCEPT ![args.job_run_id] =
                                   [@ EXCEPT !.status = "running", !.started_at = now + 1]]
                 /\ pc' = "resolve"
                 /\ result' = result
     ELSE /\ result' = [raised |-> "Job run not found"]
          /\ pc' = "done"
          /\ job_runs' = job_runs
  /\ now' = now + 1
  /\ UNCHANGED <<pref_enabled, sessions, autoflush, db_faulty, repo_cache, recommendations, last_call, args, loc,
                 client_open, response, events>>

\* the user lookup and the preference resolution, up to the entry of the client
Resolve ==
  /\ pc = "resolve"
  /\ LET j == args.job_run_id
         preferences == ResolvePreferences(args.user_id, args.preference_id)
     IN  IF \A x \in Users : x.id # args.user_id
         THEN /\ \E handler_commit_raises \in CommitRaises :
                   Handler("User not found", handler_commit_raises)
              /\ UNCHANGED <<loc, client_open>>
         ELSE IF preferences = <<>>
         THEN /\ \E commit_raises \in CommitRaises, handler_commit_raises \in CommitRaises :
                   IF commit_raises
                   THEN Handler("OperationalError", handler_commit_raises)
                   ELSE /\ job_runs' = [job_runs EXCEPT ![j] =
                                          [@ EXCEPT !.status = "completed",
                                                    !.finished_at = now + 1,
                                                    !.error_message = "No active preferences found"]]
                        /\ result' = [raised |-> None, status |-> "completed",
                                      message |-> "No active preferences found"]
                        /\ pc' = "done"
              /\ UNCHANGED <<loc, client_open>>
         ELSE /\ loc' = [loc EXCEPT !.preferences = [i \in 1..Len(preferences) |-> preferences[i].id],
                                    !.i = 1, !.total_stats = InitialStats, !.bound = TRUE]
              /\ client_open' = TRUE
              /\ pc' = "fetch"
              /\ UNCHANGED <<job_runs, result>>
  /\ now' = now + 1
  /\ UNCHANGED <<pref_enabled, sessions, autoflush, db_faulty, repo_cache, recommendations, last_call, args, response, events>>

\* the preference of the current iteration
Current == Preferences[loc.preferences[loc.i]]

\* an end of iteration that takes the same preference again
Advance_Repeats(l) ==
  /\ loc' = l
  /\ pc' = (IF l.i < Len(l.preferences) THEN "fetch" ELSE "finish")
  /\ client_open' = (l.i < Len(l.preferences))

\* an end of iteration that leaves the client's context open after the loop
Advance_LeavesOpen(l) ==
  /\ loc' = (IF l.i < Len(l.preferences) THEN [l EXCEPT !.i = @ + 1] ELSE l)
  /\ pc' = (IF l.i < Len(l.preferences) THEN "fetch" ELSE "finish")
  /\ client_open' = TRUE

\* the end of an iteration: the next preference, or the exit of the loop and of
\* the client's context
Advance(l) ==
  /\ loc' = (IF l.i < Len(l.preferences) THEN [l EXCEPT !.i = @ + 1] ELSE l)
  /\ pc' = (IF l.i < Len(l.preferences) THEN "fetch" ELSE "finish")
  /\ client_open' = (l.i < Len(l.preferences))

\* except GitHubRateLimitError: errors_count += 1; break
OnRateLimit ==
  /\ loc' = [loc EXCEPT !.total_stats = Add(@, "errors_count", 1)]
  /\ pc' = "finish"
  /\ client_open' = FALSE
  /\ events' = [events EXCEPT !.stopped = @ \cup {Current.id}]

\* a handler that ends the loop, as the rate limit's does
OnError_Breaks ==
  /\ loc' = [loc EXCEPT !.total_stats = Add(@, "errors_count", 1)]
  /\ pc' = "finish"
  /\ client_open' = FALSE
  /\ events' = [events EXCEPT !.errored = @ \cup {Current.id}]

\* a handler that also counts the preference as processed
OnError_CountsProcessed ==
  /\ Advance([loc EXCEPT !.total_stats =
                Add(Add(@, "errors_count", 1), "preferences_processed", 1)])
  /\ events' = [events EXCEPT !.errored = @ \cup {Current.id}]

\* except Exception: errors_count += 1; continue
OnError ==
  /\ Advance([loc EXCEPT !.total_stats = Add(@, "errors_count", 1)])
  /\ events' = [events EXCEPT !.errored = @ \cup {Current.id}]

\* repos = await self._fetch_repositories(...); repos_fetched += len(repos)
Fetch ==
  /\ pc = "fetch"
  /\ \E freshness \in FreshnessAnswers(Current),
        outcomes \in [1..Len(SearchesOf(Current)) -> Outcomes] :
       LET f == fetch_repositories(Current, args.force_refresh, freshness,
                                   ShortAnswers(SearchesOf(Current), outcomes), repo_cache)
           logged == [events EXCEPT
                        !.search_completed = @ \cup (IF f.completed > 0 THEN {Current.id} ELSE {}),
                        !.search_failed = @ \cup (IF f.failed > 0 THEN {Current.id} ELSE {}),
                        !.rate_limited = @ \cup (IF f.limited > 0 THEN {Current.id} ELSE {})]
       IN  IF f.raised = "GitHubRateLimitError" THEN OnRateLimit
           ELSE IF f.raised # None THEN OnError
           ELSE /\ loc' = [loc EXCEPT !.repos = f.repos,
                                      !.total_stats = Add(@, "repos_fetched", Len(f.repos))]
                /\ events' = logged
                /\ pc' = "cache"
                /\ UNCHANGED client_open
  /\ UNCHANGED <<pref_enabled, sessions, autoflush, db_faulty, now, repo_cache, recommendations, last_call, job_runs, args,
                 result, response>>

\* cached_repos = await self._cache_repositories(repos); db_error is a database
\* error raised by the step's queries or commit
Cache ==
  /\ pc = "cache"
  /\ \E db_error \in BOOLEAN :
       LET c == cache_repositories(repo_cache, loc.repos, now + 1)
       IN  IF db_error \/ c.raised
           THEN OnError /\ repo_cache' = repo_cache
           ELSE /\ repo_cache' = c.rows
                /\ loc' = [loc EXCEPT !.cached_repos = c.ret,
                                      !.total_stats = Add(@, "repos_cached", Len(c.ret))]
                /\ pc' = "filter"
                /\ UNCHANGED <<client_open, events>>
  /\ now' = now + 1
  /\ UNCHANGED <<pref_enabled, sessions, autoflush, db_faulty, recommendations, last_call, job_runs, args, result, response>>

\* filtered_repos = filter_repositories([_repo_cache_to_dict(repo) ...], preference);
\* the expired RepoCache objects are reloaded from the table
Filter ==
  /\ pc = "filter"
  /\ \E db_error \in BOOLEAN :
       LET dicts == [k \in 1..Len(loc.cached_repos) |->
                       repo_cache_to_dict(repo_cache[FirstRepo(repo_cache, loc.cached_repos[k])])]
           filtered_repos == filter_repositories(dicts, Current)
       IN  IF db_error
           THEN OnError
           ELSE /\ loc' = [loc EXCEPT !.filtered_repos = filtered_repos,
                                      !.total_stats = Add(@, "repos_filtered", Len(filtered_repos))]
                /\ pc' = "save"
                /\ UNCHANGED <<client_open, events>>
  /\ UNCHANGED <<pref_enabled, sessions, autoflush, db_faulty, now, repo_cache, recommendations, last_call, job_runs, args,
                 result, response>>

\* recommendations = save_recommendations(...)
Save ==
  /\ pc = "save"
  /\ \E db_error \in BOOLEAN :
       LET s == save_recommendations(recommendations, args.user_id, Current.id,
                                     args.job_run_id, loc.filtered_repos, now + 1)
       IN  IF db_error \/ s.raised
           THEN OnError /\ recommendations' = recommendations
           ELSE /\ recommendations' = s.rows
                /\ loc' = [loc EXCEPT !.recommendations = s.ret,
                                      !.total_stats = Add(@, "recommendations_generated", Len(s.ret))]
                /\ pc' = "notify"
                /\ UNCHANGED <<client_open, events>>
  /\ now' = now + 1
  /\ UNCHANGED <<pref_enabled, sessions, autoflush, db_faulty, repo_cache, last_call, job_runs, args, result, response>>

\* what a run's dispatch meets: every send ends the same way, the content may
\* fail to be prepared, the commit of the stamps may fail
RunDispatches ==
  LET all(o) == [c \in {Channels[k] : k \in 1..Len(Channels)} |-> o]
  IN  {[outcomes |-> all("ok"), prepare_raises |-> TRUE, commit_raises |-> FALSE]}
        \cup [outcomes : {all(o) : o \in ChannelOutcomes},
              prepare_raises : {FALSE}, commit_raises : BOOLEAN]

\* an orchestrator that dispatches whenever recommendations were saved
ShouldNotify_IgnoresChannels(recs, preference) == recs # <<>>

\* if recommendations and preference.notification_channels:
ShouldNotify(recs, preference) == recs # <<>> /\ preference.notification_channels # <<>>

\* a dispatcher failure that is counted as an error of the preference
CountNotificationError_AsError(stats) == Add(stats, "errors_count", 1)

\* total_stats["notification_errors"] = total_stats.get("notification_errors", 0) + 1
CountNotificationError(stats) ==
  Put(stats, "notification_errors", Get(stats, "notification_errors", 0) + 1)

\* the notification block and the end of the iteration; dispatch_raises is an
\* exception out of the dispatcher, which the block's own except counts; the
\* log keeps the preferences the dispatcher was called for and the sends made
Notify ==
  /\ pc = "notify"
  /\ \E env \in RunDispatches :
       LET n == send_recommendations_notification(recommendations, Users, args.user_id, Current,
                                                  loc.recommendations, env, now + 1)
           dispatch_raises == n.raised
           called == ShouldNotify(loc.recommendations, Current)
           stats == IF called
                    THEN IF dispatch_raises
                         THEN CountNotificationError(loc.total_stats)
                         ELSE Put(loc.total_stats, NotificationsSentKey(Current.id), n.ret)
                    ELSE loc.total_stats
       IN  /\ recommendations' = (IF called /\ ~dispatch_raises THEN n.rows ELSE recommendations)
           /\ Advance([loc EXCEPT !.total_stats = Add(stats, "preferences_processed", 1)])
           /\ events' = [events EXCEPT
                           !.processed = @ \cup {Current.id},
                           !.dispatched = IF called THEN @ \cup {Current.id} ELSE @,
                           !.attempted = IF called
                                         THEN @ \cup {<<Current.id, n.attempted[k]>> :
                                                        k \in 1..Len(n.attempted)}
                                         ELSE @]
  /\ now' = now + 1
  /\ UNCHANGED <<pref_enabled, sessions, autoflush, db_faulty, repo_cache, last_call, job_runs, args, result, response>>

\* the statements after the loop: the run completes and returns its stats
Finish ==
  /\ pc = "finish"
  /\ \E commit_raises \in CommitRaises, handler_commit_raises \in CommitRaises :
       IF commit_raises
       THEN Handler("OperationalError", handler_commit_raises)
       ELSE /\ job_runs' = [job_runs EXCEPT ![args.job_run_id] = MarkCompleted(@, loc, now + 1)]
            /\ result' = [raised |-> None, status |-> "completed", stats |-> loc.total_stats,
                          job_run_id |-> args.job_run_id]
            /\ pc' = "done"
  /\ now' = now + 1
  /\ UNCHANGED <<pref_enabled, sessions, autoflush, db_faulty, repo_cache, recommendations, last_call, args, loc,
                 client_open, response, events>>

\* the endpoint after the await: the response built from the result, or from
\* the exception
TriggerReturn ==
  /\ pc = "done"
  /\ response' =
       (IF args.via # "trigger" THEN response
        ELSE IF result.raised = None
        THEN [job_run_id |-> args.job_run_id, status |-> result.status,
              message |-> "Job completed successfully. Generated N recommendations.",
              N |-> Get(Get(result, "stats", <<>>), "recommendations_generated", 0)]
        ELSE [job_run_id |-> args.job_run_id, status |-> "failed",
              message |-> "Job failed: ", error |-> result.raised])
  /\ pc' = "idle"
  /\ UNCHANGED <<pref_enabled, sessions, autoflush, db_faulty, now, repo_cache, recommendations, last_call, job_runs, args,
                 loc, client_open, result, events>>

RunInputs == CallerIds \X RequestedPreferenceIds \X BOOLEAN

Step ==
  \/ Start
  \/ Resolve
  \/ Fetch
  \/ Cache
  \/ Filter
  \/ Save
  \/ Notify
  \/ Finish
  \/ TriggerReturn

Next ==
  \/ \E inp \in RunInputs : Trigger(inp[1], inp[2], inp[3])
  \/ Step

Init == StoreInit

\* runs started through the trigger endpoint, one at a time
Spec == Init /\ [][Next]_vars

\* a direct caller invokes execute_recommendation_job again for a job run that
\* exists, with the arguments the run was created with
Reexecute(j, force_refresh) ==
  /\ pc = "idle"
  /\ last_call = NoCall
  /\ j \in 1..Len(job_runs)
  /\ args' = [user_id |-> job_runs[j].user_id, job_run_id |-> j,
              preference_id |-> job_runs[j].preference_id,
              force_refresh |-> force_refresh, via |-> "direct"]
  /\ last_call' = [op |-> "execute", job_run_id |-> j]
  /\ pc' = "called"
  /\ loc' = IdleLoc
  /\ result' = NoResult
  /\ events' = NoEvents
  /\ UNCHANGED <<pref_enabled, sessions, autoflush, db_faulty, now, repo_cache, recommendations, job_runs,
                 client_open, response>>

NextReexec ==
  \/ Next
  \/ \E j \in 1..MaxRuns, force_refresh \in BOOLEAN : Reexecute(j, force_refresh)

\* the same, with at most one invocation repeated for a job run
SpecReexec == Init /\ [][NextReexec]_vars

\* the tables as Init has them, on a database that may fail the job row's commits
InitDb ==
  /\ pref_enabled = [k \in 1..Len(Preferences) |-> Preferences[k].enabled]
  /\ sessions = <<>>
  /\ autoflush \in BOOLEAN
  /\ db_faulty = TRUE
  /\ now = 0
  /\ repo_cache = <<>>
  /\ recommendations = <<>>
  /\ last_call = NoCall
  /\ JobIdle

\* triggered runs on such a database, each step of a run eventually taken
SpecDb == InitDb /\ [][Next]_vars /\ WF_vars(Step)

\* the tables after earlier runs: both provider repositories are cached, user 1
\* holds a recommendation of repository 1 that was delivered by email, user 2
\* holds one of the same repository that never was; their job runs are gone
InitShared ==
  /\ pref_enabled = [k \in 1..Len(Preferences) |-> Preferences[k].enabled]
  /\ sessions = <<>>
  /\ autoflush \in BOOLEAN
  /\ db_faulty = FALSE
  /\ now = 1
  /\ repo_cache = [k \in 1..2 |-> NewRepoCache(parse_repo_data(<<RepoA, RepoB>>[k]), 1)]
  /\ recommendations =
       << [NotifyRow(1, <<>>) EXCEPT !.user_id = 2, !.preference_id = 4, !.job_run_id = NoInt],
          [NotifyRow(1, <<"email">>) EXCEPT !.job_run_id = NoInt] >>
  /\ last_call = NoCall
  /\ JobIdle

\* triggered runs on tables that earlier runs have filled
SpecShared == InitShared /\ [][Next]_vars

\* toggle_preference: the caller's preference changes its enabled flag and the
\* change is committed; a preference that is not the caller's is not found
Toggle(u, p) ==
  /\ pref_enabled' =
       (IF \E k \in 1..Len(Preferences) : Preferences[k].id = p /\ Preferences[k].user_id = u
        THEN [pref_enabled EXCEPT ![p] = ~@]
        ELSE pref_enabled)
  /\ UNCHANGED <<sessions, autoflush, db_faulty, now, repo_cache, recommendations, last_call>>
  /\ UNCHANGED jobvars

\* the toggle requests for preference 1: of its owner, and of user 2
ToggleNext ==
  \E u \in {1, 2} : Toggle(u, 1)

\* user 1's runs, over all preferences or naming preference 1, and the toggles
NextToggle ==
  \/ ToggleNext
  \/ \E p \in {NoInt, 1}, force_refresh \in BOOLEAN : Trigger(1, p, force_refresh)
  \/ Step

\* triggered runs while preferences are switched off and on
SpecToggle == InitShared /\ [][NextToggle]_vars

----------------------------------------------------------------------------
(* Two runs in save_recommendations at once, each in its own session *)

\* both runs have reached save_recommendations with one scored repository; the
\* table is empty or holds user 1's row for repository 1
InitConcurrent ==
  /\ pref_enabled = [k \in 1..Len(Preferences) |-> Preferences[k].enabled]
  /\ \E users \in [1..2 -> {1, 2}], items \in [1..2 -> StoreItems] :
        sessions = [s \in 1..2 |->
                      [pc |-> "lookup", user_id |-> users[s], item |-> items[s],
                       preference_id |-> s, job_run_id |-> s, existing |-> 0]]
  /\ autoflush = TRUE
  /\ db_faulty = FALSE
  /\ now = 1
  /\ repo_cache = <<>>
  /\ recommendations \in {<<>>, <<[NotifyRow(1, <<>>) EXCEPT !.job_run_id = NoInt]>>}
  /\ last_call = NoCall
  /\ JobIdle

\* existing = self.db.query(Recommendation).filter(...).first(): the session
\* reads the rows committed so far
SessionLookup(s) ==
  /\ sessions[s].pc = "lookup"
  /\ sessions' = [sessions EXCEPT ![s].pc = "write",
                                  ![s].existing = FirstRec(recommendations, sessions[s].user_id,
                                                           sessions[s].item.repo_data["repo_id"])]
  /\ UNCHANGED <<pref_enabled, autoflush, db_faulty, now, repo_cache, recommendations, last_call>>
  /\ UNCHANGED jobvars

\* if existing: the row's attributes are set; else: self.db.add(recommendation).
\* Either change stays in the session until the commit
SessionWrite(s) ==
  /\ sessions[s].pc = "write"
  /\ sessions' = [sessions EXCEPT ![s].pc = "commit"]
  /\ UNCHANGED <<pref_enabled, autoflush, db_faulty, now, repo_cache, recommendations, last_call>>
  /\ UNCHANGED jobvars

\* self.db.commit(): the UPDATE of the row found, or the INSERT of the new row,
\* which raises IntegrityError when the pair is in the unique index by now
SessionCommit(s) ==
  /\ sessions[s].pc = "commit"
  /\ LET ss == sessions[s]
         c  == IF ss.existing > 0
               THEN [raised |-> FALSE,
                     rows |-> [recommendations EXCEPT ![ss.existing] =
                                 UpdateExisting(@, ss.item, ss.preference_id, ss.job_run_id, now + 1)]]
               ELSE CommitRecs(recommendations,
                               [rows |-> recommendations,
                                pending |-> <<NewRecommendation(ss.user_id, ss.item, ss.preference_id,
                                                                ss.job_run_id, now + 1)>>])
     IN  /\ recommendations' = c.rows
         /\ sessions' = [sessions EXCEPT ![s].pc = IF c.raised THEN "raised" ELSE "returned"]
  /\ now' = now + 1
  /\ UNCHANGED <<pref_enabled, autoflush, db_faulty, repo_cache, last_call>>
  /\ UNCHANGED jobvars

NextConcurrent ==
  \E s \in 1..2 :
     \/ SessionLookup(s)
     \/ SessionWrite(s)
     \/ SessionCommit(s)

\* every interleaving of the two sessions' steps
SpecConcurrent == InitConcurrent /\ [][NextConcurrent]_vars

----------------------------------------------------------------------------
(* C1: in every state reached by any sequence of save_recommendations calls  *)
(* (a repo id repeated inside one call included) the recommendations table   *)
(* holds at most one row per (user_id, repo_id) pair.                        *)
C1_OneRowPerUserRepo ==
  \A u \in UserIds, r \in RepoIds :
     Cardinality({i \in 1..Len(recommendations) :
                    recommendations[i].user_id = u /\ recommendations[i].repo_id = r}) <= 1

\* a call whose list repeated a repo id has returned, and the pair has its row
C1_Witness ==
  /\ last_call.op = "save" /\ ~last_call.raised /\ last_call.n > 1
  /\ \E r \in RepoIds : last_call.last[r] # <<>> /\ last_call.last[3 - r] = <<>>
  /\ Len(recommendations) >= 2

\* C2: a save for a (user, repo) pair that already has a row overwrites it in
\* place: after the call the pair's single row carries the score and reason of
\* the call's (last) item for that repo and the call's preference_id and
\* job_run_id, whatever the row held before.
C2_LastWriterWins ==
  (last_call.op = "save" /\ ~last_call.raised) =>
     \A r \in RepoIds :
        last_call.last[r] # <<>> =>
           LET i == FirstRec(recommendations, last_call.user_id, r)
           IN  /\ i > 0
               /\ recommendations[i].score = last_call.last[r][1].score
               /\ recommendations[i].reason = last_call.last[r][1].reasoning
               /\ recommendations[i].preference_id = last_call.preference_id
               /\ recommendations[i].job_run_id = last_call.job_run_id
               /\ recommendations[i].created_at = now

\* a second save has overwritten a row written by an earlier call of another
\* preference and job run
C2_Witness ==
  /\ last_call.op = "save" /\ ~last_call.raised /\ now = 2
  /\ last_call.preference_id = 2 /\ last_call.job_run_id = 2
  /\ last_call.last[1] # <<>> /\ last_call.last[1][1].score = 800
  /\ Len(recommendations) = 1
  /\ recommendations[1].created_at = 2 /\ recommendations[1].score = 800

\* C3: after any sequence of _cache_repositories calls the cache holds one row
\* per repo id, and after a call that returned every well-formed snapshot of
\* the call has its row, whose mutable fields are those of the call's (last)
\* snapshot for that id and whose fetched_at is the time of the call.
C3_CacheUpsert ==
  /\ \A r \in RepoIds :
        Cardinality({i \in 1..Len(repo_cache) : repo_cache[i].repo_id = r}) <= 1
  /\ (last_call.op = "cache" /\ ~last_call.raised) =>
        \A r \in RepoIds :
           last_call.last[r] # <<>> =>
              LET i == FirstRepo(repo_cache, r)
                  want == parse_repo_data(last_call.last[r][1])
              IN  /\ i > 0
                  /\ \A k \in DOMAIN want : repo_cache[i][k] = want[k]
                  /\ repo_cache[i].fetched_at = now

\* a cached repo id was upserted again by a later call with other field values
C3_Witness ==
  /\ last_call.op = "cache" /\ ~last_call.raised /\ now = 2
  /\ Len(repo_cache) = 1
  /\ repo_cache[1].stargazers_count = 500 /\ repo_cache[1].fetched_at = 2
  /\ last_call.last[1] # <<>>

----------------------------------------------------------------------------
(* What the claims about a run speak of *)

Terminal == {"completed", "failed"}

\* the call has returned or raised (and the endpoint may have answered)
Returned == pc \in {"done", "idle"} /\ args.via # "none"

\* the job row of the current call
Job == job_runs[args.job_run_id]

UserExists(u) == \E x \in Users : x.id = u

\* the user has no enabled preference, or the one preference named is the
\* user's and disabled
EmptySet(u, p) ==
  IF TruthyInt(p)
  THEN \E k \in 1..Len(Preferences) :
          Preferences[k].id = p /\ Preferences[k].user_id = u /\ ~pref_enabled[k]
  ELSE \A k \in 1..Len(Preferences) :
          Preferences[k].user_id = u => ~pref_enabled[k]

\* the preference named is no preference of the user
MissingPreference(u, p) ==
  /\ TruthyInt(p)
  /\ \A k \in 1..Len(Preferences) : ~(Preferences[k].id = p /\ Preferences[k].user_id = u)

\* the positions in the run's preference list of the ids in S
PositionsOf(S) == {k \in 1..Len(loc.preferences) : loc.preferences[k] \in S}

\* the preferences the loop has begun: a search, an error or an end was logged
Begun ==
  events.search_completed \cup events.search_failed \cup events.rate_limited
    \cup events.errored \cup events.stopped \cup events.processed

\* C4: once a job run's status is completed or failed, no step of any
\* invocation of execute_recommendation_job (a second invocation with the same
\* job_run_id included) makes it running or queued again.
C4_StatusMonotonic ==
  [][\A j \in 1..Len(job_runs) :
        job_runs[j].status \in Terminal => job_runs'[j].status \in Terminal]_vars

\* C5: a run whose resolved preference set is empty (no enabled preference, or
\* the named preference disabled) ends completed with finished_at set and the
\* informational message; it does not end failed, no exception reaches the
\* caller, and the endpoint answers completed.
C5_EmptySetCompletes ==
  (Returned /\ UserExists(args.user_id) /\ EmptySet(args.user_id, args.preference_id)) =>
     /\ Job.status = "completed"
     /\ Job.finished_at # Null
     /\ Job.error_message = "No active preferences found"
     /\ result.raised = None
     /\ result.status = "completed"
     /\ result.message = "No active preferences found"
     /\ (pc = "idle" /\ args.via = "trigger") => response.status = "completed"

\* a run for the disabled preference 3 of user 1 has been answered
C5_Witness ==
  /\ pc = "idle" /\ args.user_id = 1 /\ args.preference_id = 3
  /\ response.status = "completed"
  /\ job_runs[1].status = "completed" /\ job_runs[1].finished_at # Null

\* C6: when the provider signals rate-limit exhaustion on a request of
\* preference i, the preferences after i are not begun in this run (no search,
\* cache write, save or notification), errors_count is incremented, and the run
\* ends completed.
C6_RateLimitAborts ==
  (Returned /\ events.rate_limited \cup events.stopped # {}) =>
     LET limited == PositionsOf(events.rate_limited \cup events.stopped)
         i == CHOOSE k \in limited : \A m \in limited : k <= m
     IN  /\ \A k \in (i + 1)..Len(loc.preferences) : loc.preferences[k] \notin Begun
         /\ loc.total_stats["errors_count"] >= 1
         /\ Job.status = "completed"
         /\ Job.counters = loc.total_stats

C8_EscapingExceptionFails ==
  /\ (Returned /\ ~UserExists(args.user_id)) => result.raised = "User not found"
  /\ (Returned /\ result.raised # None) =>
        /\ Job.status = "failed"
        /\ Job.finished_at # Null
        /\ Job.error_message = result.raised
        /\ (pc = "idle" /\ args.via = "trigger") =>
              (response.status = "failed" /\ response.error = result.raised)

\* a run for user 4, who has no row, has been answered
C8_Witness ==
  /\ pc = "idle" /\ args.user_id = 4
  /\ result.raised = "User not found"
  /\ job_runs[1].status = "failed" /\ job_runs[1].error_message = "User not found"
  /\ response.status = "failed"

\* C9 as stated: a run triggered with a preference_id that is no preference of
\* the user ends failed with an error message, and the endpoint answers failed.
C9_MissingPreferenceFails ==
  (pc = "idle" /\ args.via = "trigger" /\ UserExists(args.user_id)
     /\ MissingPreference(args.user_id, args.preference_id)) =>
     /\ Job.status = "failed"
     /\ Job.error_message # None
     /\ response.status = "failed"

\* C9, amended: a run triggered with a preference_id that is no preference of
\* the user resolves to the empty set: it ends completed with the message
\* "No active preferences found", nothing is raised, no preference is begun and
\* the endpoint answers completed.
C9_MissingPreferenceCompletes ==
  (Returned /\ UserExists(args.user_id)
     /\ MissingPreference(args.user_id, args.preference_id)) =>
     /\ Job.status = "completed"
     /\ Job.error_message = "No active preferences found"
     /\ result.raised = None
     /\ Begun = {}
     /\ (pc = "idle" /\ args.via = "trigger") => response.status = "completed"

\* user 1 named preference 4, which is user 2's, and was answered
C9_Witness ==
  /\ pc = "idle" /\ args.user_id = 1 /\ args.preference_id = 4
  /\ response.status = "completed"
  /\ job_runs[1].error_message = "No active preferences found"

\* C10: a run the endpoint creates starts queued, and when the endpoint has
\* answered (every external call having returned or raised) the run's status is
\* completed or failed, not queued or running, and the answer carries a
\* terminal status and a message.
C10_TriggeredRunsEnd ==
  /\ [][Len(job_runs') > Len(job_runs) =>
          job_runs'[Len(job_runs')].status = "queued"]_vars
  /\ []((pc = "idle" /\ args.via = "trigger") =>
          /\ Job.status \in Terminal
          /\ response.status \in Terminal
          /\ "message" \in DOMAIN response)

StepOrder == <<"fetch", "cache", "filter", "save", "notify">>

StepIndex(p) == CHOOSE k \in 1..Len(StepOrder) : StepOrder[k] = p

InLoop(p) == \E k \in 1..Len(StepOrder) : StepOrder[k] = p

\* C12: within a run the preferences are processed one after another and each
\* one's steps in the order search, cache, filter and score, save, notify: a
\* step is entered only from the step before it of the same preference; the
\* next preference is begun only when the current one was logged processed or
\* failed, and it is the next of the list; a notification stamps only rows the
\* save step of this preference has committed.
C12_SequentialSteps ==
  [][/\ (InLoop(pc') /\ pc' # "fetch" /\ pc' # pc) =>
           (InLoop(pc) /\ StepIndex(pc') = StepIndex(pc) + 1 /\ loc'.i = loc.i)
     /\ (InLoop(pc) /\ pc' = "fetch") =>
           /\ loc'.i = loc.i + 1
           /\ loc.preferences[loc.i] \in events'.processed \cup events'.errored
           /\ (pc = "notify" \/ loc.preferences[loc.i] \in events'.errored)
     /\ (InLoop(pc) /\ InLoop(pc')) => loc'.preferences = loc.preferences
     /\ (pc' = "finish") =>
           (InLoop(pc) /\ loc.i = Len(loc.preferences)) \/ pc = "finish"
     /\ \A k \in 1..Len(recommendations') :
           (k > Len(recommendations)
              \/ recommendations'[k].sent_channels # recommendations[k].sent_channels
              \/ recommendations'[k].sent_at # recommendations[k].sent_at) =>
             \/ pc = "save" /\ recommendations'[k].sent_channels = <<>>
             \/ /\ pc = "notify" /\ k <= Len(recommendations)
                /\ recommendations[k].user_id = args.user_id
                /\ recommendations[k].preference_id = loc.preferences[loc.i]
                /\ recommendations[k].job_run_id = args.job_run_id
                /\ InSeq(recommendations[k].repo_id, loc.recommendations)]_vars

\* preference 1 of user 1 was saved and notified by email before preference 2
\* was begun
C12_Witness ==
  /\ pc = "fetch" /\ loc.i = 2 /\ events.processed = {1}
  /\ \E k \in 1..Len(recommendations) :
        /\ recommendations[k].preference_id = 1
        /\ recommendations[k].sent_channels = <<"email">>
        /\ recommendations[k].sent_at # Null

----------------------------------------------------------------------------
(* The hard filters and the selection of filter_repositories *)

\* the call made was filter_repositories, on any list and preference
Filtered == last_call.op = "filter"

\* C13: no repository whose stargazers_count is below the preference's
\* min_stars appears in the output of filter_repositories
C13_MinStarsExcluded ==
  Filtered =>
    \A i \in 1..Len(last_call.out) :
       last_call.out[i].repo_data.stargazers_count >= last_call.preference.min_stars

\* a list with a repository below min_stars and one at or above it: the output
\* is not empty
C13_Witness ==
  /\ Filtered
  /\ \E i \in 1..Len(last_call.repos) :
        last_call.repos[i].stargazers_count < last_call.preference.min_stars
  /\ last_call.out # <<>>

\* C14: no run saves a recommendation for a cached repository that is archived
\* or disabled: every recommendation row's repository is cached with
\* is_archived and is_disabled both "false"
C14_ArchivedExcluded ==
  \A k \in 1..Len(recommendations) : \A c \in 1..Len(repo_cache) :
     repo_cache[c].repo_id = recommendations[k].repo_id =>
        (repo_cache[c].is_archived = "false" /\ repo_cache[c].is_disabled = "false")

\* C15: for every preference whose max_stars is set, 0 included, no repository
\* whose stargazers_count exceeds max_stars appears in the output of
\* filter_repositories
C15_MaxStarsExcluded ==
  (Filtered /\ last_call.preference.max_stars # NoInt) =>
    \A i \in 1..Len(last_call.out) :
       last_call.out[i].repo_data.stargazers_count <= last_call.preference.max_stars

\* C16: every entry of the output of filter_repositories has a score strictly
\* above 0.1 (and at most 1.0), and so has every Recommendation row saved from it
C16_ScoreAboveFloor ==
  /\ Filtered =>
       \A i \in 1..Len(last_call.out) :
          last_call.out[i].score > 100000 /\ last_call.out[i].score <= 1000000
  /\ \A k \in 1..Len(recommendations) :
        recommendations[k].score > 100000 /\ recommendations[k].score <= 1000000

\* a list with a repository that passes the hard filters and scores 0.1 or
\* less, and one that is saved as a recommendation
C16_Witness ==
  /\ Filtered
  /\ \E i \in 1..Len(last_call.repos) :
        /\ passes_basic_filters(last_call.repos[i], last_call.preference)
        /\ calculate_score(last_call.repos[i], last_call.preference).score <= 100000
  /\ last_call.out # <<>>
  /\ recommendations # <<>>

\* the positions of the input list that pass the hard filters and the score floor
Eligible ==
  {i \in 1..Len(last_call.repos) :
     /\ passes_basic_filters(last_call.repos[i], last_call.preference)
     /\ calculate_score(last_call.repos[i], last_call.preference).score > 100000}

\* C17: the output of filter_repositories is in non-increasing score order, has
\* at most preference.max_recommendations entries, and is a top-k selection:
\* it holds min(k, number of eligible repositories) eligible repositories with
\* their scores, and every eligible repository scoring above its last entry
\* is in it
C17_TopKByScore ==
  Filtered =>
    LET out == last_call.out
        k == last_call.preference.max_recommendations
        ScoreOf(i) == calculate_score(last_call.repos[i], last_call.preference).score
    IN  /\ \A i \in 1..Len(out) : \A j \in 1..Len(out) : i < j => out[i].score >= out[j].score
        /\ Len(out) <= k
        /\ Len(out) = Min(Cardinality(Eligible), k)
        /\ \A n \in 1..Len(out) :
              \E i \in Eligible :
                 out[n].repo_data = last_call.repos[i] /\ out[n].score = ScoreOf(i)
        /\ \A i \in Eligible :
              (out # <<>> /\ ScoreOf(i) > out[Len(out)].score) =>
                 \E n \in 1..Len(out) : out[n].repo_data = last_call.repos[i]

\* two eligible repositories given in increasing score order with
\* max_recommendations 1: the output is the better one alone
C17_Witness ==
  /\ Filtered
  /\ last_call.preference.max_recommendations = 1
  /\ Eligible = {1, 2}
  /\ calculate_score(last_call.repos[1], last_call.preference).score
       < calculate_score(last_call.repos[2], last_call.preference).score
  /\ Len(last_call.out) = 1
  /\ last_call.out[1].repo_data = last_call.repos[2]

----------------------------------------------------------------------------
(* The score of calculate_score *)

\* the call made was calculate_score, on any repository and preference
Scored == last_call.op = "score"

\* some excluded keyword of the preference is in the repository's name,
\* description or full name
ExcludedKeywordIn(repo_data, preference) ==
  \E e \in 1..Len(preference.excluded_keywords) :
     IsSubstr(Lower(preference.excluded_keywords[e]), SearchableText(repo_data))

\* some excluded topic of the preference is among the repository's topics
ExcludedTopicIn(repo_data, preference) ==
  \E e \in 1..Len(preference.excluded_topics) :
     \E t \in 1..Len(Get(repo_data, "topics", <<>>)) :
        Lower(preference.excluded_topics[e]) = Lower(repo_data.topics[t])

\* the fraction of the preference's keywords found in the repository's text,
\* in thousandths
KeywordFraction(repo_data, preference) ==
  LET hits == {k \in 1..Len(preference.keywords) :
                 IsSubstr(Lower(preference.keywords[k]), SearchableText(repo_data))}
  IN  IF preference.keywords = <<>> THEN 0
      ELSE (1000 * Cardinality(hits)) \div Len(preference.keywords)

\* 0.40 keyword + 0.25 language + 0.20 star + 0.10 freshness + 0.05 topic, in
\* millionths
WeightedSum(repo_data, preference) ==
  400 * KeywordFraction(repo_data, preference)
  + 250 * score_language(repo_data, preference.languages)
  + 200 * score_stars(repo_data, preference.min_stars, preference.max_stars)
  + 100 * score_freshness(repo_data)
  + 50 * score_topics(repo_data, preference.keywords, preference.excluded_topics)

Clamp(x) == Max(0, Min(1000000, x))

\* C18: for every preference, one with an empty keyword list included, a
\* repository with an excluded keyword in its name, description or full name
\* has 0.5 taken from its raw total, and one with an excluded topic has the
\* topic factor -0.5
C18_ExclusionPenalised ==
  Scored =>
    LET repo_data == last_call.repo_data
        preference == last_call.preference
    IN  /\ ExcludedKeywordIn(repo_data, preference) =>
              /\ last_call.out.reasoning.exclusion_penalty = -500
              /\ last_call.out.score = Clamp(WeightedSum(repo_data, preference) - 500000)
        /\ ExcludedTopicIn(repo_data, preference) =>
              last_call.out.reasoning.topic_bonus = -500

\* C19: calculate_score returns clamp(0.40 keyword + 0.25 language + 0.20 star
\* + 0.10 freshness + 0.05 topic - 0.5 [an excluded keyword matched], 0, 1),
\* reasoning.total_score is the returned score, and the example (keywords ai,
\* ml; languages Py; min_stars 50; 15000 stars, language Py, description
\* "ai framework", no topics) scores 0.65 + 0.10 freshness with
\* matched_keywords = [ai]
C19_ScoreFormula ==
  Scored =>
    LET repo_data == last_call.repo_data
        preference == last_call.preference
        penalty == IF ExcludedKeywordIn(repo_data, preference) THEN 500000 ELSE 0
    IN  /\ last_call.out.score = Clamp(WeightedSum(repo_data, preference) - penalty)
        /\ last_call.out.reasoning.total_score = last_call.out.score
        /\ ( /\ preference.keywords = <<ai, ml>> /\ preference.languages = <<Py>>
             /\ preference.min_stars = 50 /\ preference.excluded_keywords = <<>>
             /\ repo_data.stargazers_count = 15000 /\ repo_data.language = Py
             /\ repo_data.description = ai_framework /\ repo_data.name = Go
             /\ repo_data.topics = <<>> ) =>
              /\ last_call.out.score = 650000 + 100 * score_freshness(repo_data)
              /\ last_call.out.reasoning.matched_keywords = <<ai>>

\* C20: the language sub-score is 1.0 when the preference's language list is
\* empty, 1.0 on an exact match with the repository's language, 0.7 when one
\* name is a case-insensitive substring of the other, 0.1 when the repository
\* has no language and the preference lists languages, 0.0 otherwise
C20_LanguageScore ==
  last_call.op = "language" =>
    LET preferred_languages == last_call.preferred_languages
        repo_language == Get(last_call.repo_data, "language", <<>>)
        Exact == \E i \in 1..Len(preferred_languages) : preferred_languages[i] = repo_language
        Partial == \E i \in 1..Len(preferred_languages) :
                      \/ IsSubstr(Lower(preferred_languages[i]), Lower(repo_language))
                      \/ IsSubstr(Lower(repo_language), Lower(preferred_languages[i]))
    IN  last_call.out = IF preferred_languages = <<>> THEN 1000
                        ELSE IF repo_language = <<>> THEN 100
                        ELSE IF Exact THEN 1000
                        ELSE IF Partial THEN 700
                        ELSE 0

----------------------------------------------------------------------------
(* The queries, the chunks and the result of _fetch_repositories *)

\* the call made was _fetch_repositories with force_refresh
Fetched == last_call.op = "fetch"

\* the parts of query q that are of the given kind
PartsOf(q, kind) == SelectSeq(q, LAMBDA x : x.part = kind)

\* C22: for a preference with keywords = [] and languages = [] a live fetch
\* builds exactly one query, made of the star and date filters that are set
\* and fork:false, with no keyword term and no language term
C22_EmptyPreferenceQuery ==
  (Fetched /\ last_call.preference.keywords = <<>> /\ last_call.preference.languages = <<>>) =>
    LET preference == last_call.preference
        queries == last_call.out.queries
        q == queries[1]
    IN  /\ Len(queries) = 1
        /\ \A n \in 1..Len(q) : q[n].part \in {"stars", "created", "pushed", "fork"}
        /\ PartsOf(q, "stars") = IF preference.min_stars > 0
                                 THEN <<[part |-> "stars", value |-> preference.min_stars]>>
                                 ELSE <<>>
        /\ PartsOf(q, "created") = IF preference.created_after # NoInt
                                   THEN <<[part |-> "created", value |-> preference.created_after]>>
                                   ELSE <<>>
        /\ PartsOf(q, "pushed") = IF preference.updated_after # NoInt
                                  THEN <<[part |-> "pushed", value |-> preference.updated_after]>>
                                  ELSE <<>>
        /\ PartsOf(q, "fork") = <<[part |-> "fork", value |-> FALSE]>>

\* a preference without keywords and languages, with min_stars 10 and
\* created_after set, was fetched: one query of stars, created, pushed and fork
C22_Witness ==
  /\ Fetched
  /\ last_call.preference.keywords = <<>> /\ last_call.preference.languages = <<>>
  /\ last_call.preference.min_stars = 10 /\ last_call.preference.created_after = 1000
  /\ Len(last_call.out.queries) = 1
  /\ Len(last_call.out.queries[1]) = 4
  /\ last_call.out.requests = 2

\* the keyword term of query q, [] for a query without one
KeywordTerm(q) ==
  IF PartsOf(q, "keywords") = <<>> THEN <<>> ELSE PartsOf(q, "keywords")[1].value

RECURSIVE Concat(_)
Concat(chunks) == IF chunks = <<>> THEN <<>> ELSE Head(chunks) \o Concat(Tail(chunks))

\* ceil(n / 5)
CeilDiv5(n) == (n + 4) \div 5

\* what C23 and its amendment share: each chunk has at most 5 keywords, the
\* chunks in order make up the keyword list, and every keyword is in the
\* keyword term of a query sent
ChunksCoverKeywords ==
  LET keywords == last_call.preference.keywords
      chunks == KeywordChunks(keywords)
  IN  /\ \A c \in 1..Len(chunks) : Len(chunks[c]) <= 5
      /\ Concat(chunks) = keywords
      /\ \A c \in 1..Len(chunks) :
            \E n \in 1..Len(last_call.out.queries) :
               KeywordTerm(last_call.out.queries[n]) = chunks[c]
      /\ \A i \in 1..Len(keywords) :
            \E n \in 1..Len(last_call.out.queries) :
               InSeq(keywords[i], KeywordTerm(last_call.out.queries[n]))

\* C23: for every keyword list of length N the live fetch splits the keywords
\* into exactly ceil(N/5) chunks of at most 5 keywords that preserve the order,
\* and every keyword is in a chunk and so in a query sent to the provider
C23_CeilChunks ==
  Fetched =>
    /\ Len(KeywordChunks(last_call.preference.keywords))
         = CeilDiv5(Len(last_call.preference.keywords))
    /\ ChunksCoverKeywords

\* C23 as the code has it: ceil(N/5) chunks for N >= 1, and for N = 0 one empty
\* chunk, whose query has no keyword term
C23_CeilChunksOrOneEmpty ==
  Fetched =>
    LET keywords == last_call.preference.keywords
        chunks == KeywordChunks(keywords)
    IN  /\ keywords # <<>> => Len(chunks) = CeilDiv5(Len(keywords))
        /\ keywords = <<>> => chunks = << <<>> >>
        /\ ChunksCoverKeywords

\* eleven keywords were fetched without a language: three queries, the last
\* with the eleventh keyword alone
C23_Witness ==
  /\ Fetched
  /\ Len(last_call.preference.keywords) = 11
  /\ last_call.preference.languages = <<>>
  /\ Len(last_call.out.queries) = 3
  /\ KeywordTerm(last_call.out.queries[3]) = <<last_call.preference.keywords[11]>>

\* the language term of query q, "" for a query without one
LanguageTerm(q) ==
  IF PartsOf(q, "language") = <<>> THEN <<>> ELSE PartsOf(q, "language")[1].value

\* C24: with M > 0 languages the live fetch makes exactly one search (one
\* search_repositories call, one query) per (keyword chunk, language) pair,
\* max(1, ceil(N/5)) * M in all; with M = 0 exactly one per keyword chunk; and
\* whatever the provider answers to a search, the later searches are made
C24_OneSearchPerPair ==
  Fetched =>
    LET keywords == last_call.preference.keywords
        languages == last_call.preference.languages
        chunks == KeywordChunks(keywords)
        queries == last_call.out.queries
        Sent(chunk, language) ==
          {n \in 1..Len(queries) :
             KeywordTerm(queries[n]) = chunk /\ LanguageTerm(queries[n]) = language}
    IN  /\ languages # <<>> =>
              /\ Len(queries) = Max(1, CeilDiv5(Len(keywords))) * Len(languages)
              /\ \A c \in 1..Len(chunks) : \A l \in 1..Len(languages) :
                    Cardinality(Sent(chunks[c], languages[l])) = 1
        /\ languages = <<>> =>
              /\ Len(queries) = Max(1, CeilDiv5(Len(keywords)))
              /\ \A c \in 1..Len(chunks) : Cardinality(Sent(chunks[c], <<>>)) = 1
        /\ last_call.out.completed + last_call.out.failed = Len(queries)

\* eleven keywords and two languages, the first search answered by a 5xx: six
\* searches were made, one failed and five completed
C24_Witness ==
  /\ Fetched
  /\ Len(last_call.preference.keywords) = 11
  /\ Len(last_call.preference.languages) = 2
  /\ last_call.answers[1][1].outcome = "error"
  /\ Len(last_call.out.queries) = 6
  /\ last_call.out.failed = 1 /\ last_call.out.completed = 5

\* the first position of repo id in the list the searches returned, in
\* sub-query order
FirstFetched(id) ==
  LET hits == {k \in 1..Len(last_call.out.fetched) : last_call.out.fetched[k]["id"] = id}
  IN  CHOOSE k \in hits : \A h \in hits : k <= h

\* C25: the list _fetch_repositories returns for a preference has no two
\* entries with the same repo id, has every repo id that a sub-query returned,
\* and keeps of each id the first occurrence, in sub-query order
C25_UniqueFirstOccurrence ==
  Fetched =>
    LET repos == last_call.out.repos
        fetched == last_call.out.fetched
    IN  /\ \A i \in 1..Len(repos) : \A j \in 1..Len(repos) :
              i # j => repos[i]["id"] # repos[j]["id"]
        /\ \A k \in 1..Len(fetched) : \E i \in 1..Len(repos) : repos[i]["id"] = fetched[k]["id"]
        /\ \A i \in 1..Len(repos) :
              /\ \E k \in 1..Len(fetched) : fetched[k]["id"] = repos[i]["id"]
              /\ repos[i] = fetched[FirstFetched(repos[i]["id"])]
        /\ \A i \in 1..Len(repos) : \A j \in 1..Len(repos) :
              i < j => FirstFetched(repos[i]["id"]) < FirstFetched(repos[j]["id"])

\* the searches returned repository 1 twice, with 501 stars and then with 500:
\* the result holds it once, with 501 stars
C25_Witness ==
  /\ Fetched
  /\ \E k \in 1..Len(last_call.out.fetched) : last_call.out.fetched[k] = RepoA
  /\ \E k \in 1..Len(last_call.out.fetched) : last_call.out.fetched[k] = RepoB
  /\ last_call.out.fetched[1] = RepoA2
  /\ Len(last_call.out.fetched) > 2
  /\ last_call.out.repos = <<RepoA2, RepoB>>

----------------------------------------------------------------------------
(* Malformed snapshots in a batch of _cache_repositories *)

\* the call made was _cache_repositories
Cached == last_call.op = "cache"

----------------------------------------------------------------------------
(* The channels of a dispatch *)

\* a direct call of the dispatcher has returned
Notified == last_call.op = "notify"

\* the call reached the channel blocks: the batch was not empty, the user's row
\* was found and the content was prepared
Dispatched ==
  /\ Notified
  /\ last_call.recs # <<>>
  /\ \E x \in last_call.users : x.id = last_call.user_id
  /\ ~last_call.raised

NotifiedUser == CHOOSE x \in last_call.users : x.id = last_call.user_id

\* the channels of the four blocks for which ok(c) holds, in the blocks' order
ChannelsWhere(ok(_)) == SelectSeq(Channels, ok)

Requested(c) == InSeq(c, last_call.channels)

Configured(c) == Destination(NotifiedUser, c) # None

\* C27: whatever channels the preference requests, whatever destinations the
\* user has and however each send ends (True, False, an exception), the
\* dispatcher attempts exactly the requested channels that have a destination,
\* the others are skipped without an error, and it returns exactly the
\* attempted channels whose send returned True; a send that fails or raises
\* does not keep a later channel from being attempted
C27_ChannelsAttemptedAndReturned ==
  Dispatched =>
    /\ last_call.attempted = ChannelsWhere(LAMBDA c : Requested(c) /\ Configured(c))
    /\ last_call.ret =
         ChannelsWhere(LAMBDA c : Requested(c) /\ Configured(c)
                                    /\ last_call.env.outcomes[c] = "ok")

\* email raises, telegram has no destination, slack returns False, and wechat
\* is still attempted and is the one channel returned
C27_Witness ==
  /\ Dispatched
  /\ last_call.channels = Channels
  /\ last_call.env.outcomes["email"] = "raise"
  /\ last_call.env.outcomes["slack"] = "false"
  /\ last_call.attempted = <<"email", "slack", "wechat">>
  /\ last_call.ret = <<"wechat">>

\* row k of table recommendations is one of the batch the dispatcher was given
InBatch(k) ==
  /\ recommendations[k].user_id = last_call.user_id
  /\ InSeq(recommendations[k].repo_id, last_call.recs)

\* C28: once the dispatcher has attempted all channels for a non-empty batch,
\* every recommendation of the batch carries the list the dispatcher returned
\* as sent_channels, and its sent_at is set exactly when that list is not empty
C28_BatchStampedWithReturned ==
  Dispatched =>
    \A k \in 1..Len(recommendations) :
       InBatch(k) =>
         /\ recommendations[k].sent_channels = last_call.ret
         /\ (recommendations[k].sent_at # Null) <=> (last_call.ret # <<>>)

----------------------------------------------------------------------------
(* The orchestrator's notification block *)

\* C29: the orchestrator calls the dispatcher for a preference only when the
\* recommendations saved for it and its notification_channels are both
\* non-empty; in every other case the block calls no dispatcher, no channel
\* send is made, no recommendation is stamped and no sent channels are recorded
C29_DispatchOnlyWithRecsAndChannels ==
  [][(pc = "notify"
        /\ ~(loc.recommendations # <<>> /\ Current.notification_channels # <<>>)) =>
       /\ events'.dispatched = events.dispatched
       /\ events'.attempted = events.attempted
       /\ recommendations' = recommendations
       /\ DOMAIN loc'.total_stats = DOMAIN loc.total_stats]_vars

\* user 1's run: preference 1 (email) was dispatched and its rows stamped,
\* preference 2 (no channels) saved recommendations and was processed without
\* a dispatch
C29_Witness ==
  /\ pc = "finish" /\ args.user_id = 1 /\ loc.preferences = <<1, 2>>
  /\ loc.recommendations # <<>>
  /\ events.processed = {1, 2}
  /\ events.dispatched = {1}
  /\ events.attempted = {<<1, "email">>}
  /\ "notifications_sent_2" \notin DOMAIN loc.total_stats
  /\ \E k \in 1..Len(recommendations) : recommendations[k].preference_id = 2

\* the notification of preference id failed: the dispatcher was called and
\* raised, or a send it attempted is not among the channels it returned
NotificationFailed(id, ev, stats) ==
  \/ id \in ev.dispatched /\ NotificationsSentKey(id) \notin DOMAIN stats
  \/ \E a \in ev.attempted :
        a[1] = id /\ ~InSeq(a[2], Get(stats, NotificationsSentKey(id), <<>>))

\* row k of the table is the same saved recommendation before and after a step
SameSaved(k) ==
  [recommendations'[k] EXCEPT !.sent_channels = <<>>, !.sent_at = Null]
    = [recommendations[k] EXCEPT !.sent_channels = <<>>, !.sent_at = Null]

\* C30: a notification failure (a send returning False, a send raising, the
\* dispatcher raising) does not fail the run and does not discard the
\* preference's work: the step leaves every saved recommendation in the table
\* and the job row alone, counts the preference in preferences_processed, does
\* not increment errors_count and goes on to the next preference; and the run
\* ends completed with no exception
C30_NotificationFailureIsolated ==
  /\ [][(pc = "notify" /\ NotificationFailed(Current.id, events', loc'.total_stats)) =>
          /\ Len(recommendations') = Len(recommendations)
          /\ \A k \in 1..Len(recommendations) : SameSaved(k)
          /\ job_runs' = job_runs
          /\ Current.id \in events'.processed
          /\ loc'.total_stats["preferences_processed"]
               = loc.total_stats["preferences_processed"] + 1
          /\ loc'.total_stats["errors_count"] = loc.total_stats["errors_count"]
          /\ pc' = (IF loc.i < Len(loc.preferences) THEN "fetch" ELSE "finish")
          /\ loc'.i = (IF loc.i < Len(loc.preferences) THEN loc.i + 1 ELSE loc.i)]_vars
  /\ []((Returned /\ \E id \in events.dispatched :
                        NotificationFailed(id, events, loc.total_stats)) =>
          /\ Job.status = "completed"
          /\ result.raised = None)

\* user 1's run was answered completed with no error counted: the dispatcher
\* raised for preference 1, whose recommendations are in the table, and
\* preference 2 was processed after it
C30_Witness ==
  /\ pc = "idle" /\ args.user_id = 1
  /\ events.dispatched = {1} /\ events.attempted = {}
  /\ events.processed = {1, 2}
  /\ job_runs[1].status = "completed"
  /\ Get(job_runs[1].counters, "notification_errors", 0) = 1
  /\ job_runs[1].counters["errors_count"] = 0
  /\ job_runs[1].counters["preferences_processed"] = 2
  /\ \E k \in 1..Len(recommendations) : recommendations[k].preference_id = 1
  /\ response.status = "completed"

----------------------------------------------------------------------------
(* calculate_score on the same inputs at two points of an execution *)

\* both calls on the same (repo, preference) have returned
ScoredTwice == last_call.op = "rescore" /\ last_call.second # <<>>

\* C21: calculate_score is deterministic: two calls on the same repository and
\* preference, made at any two points of an execution (whatever the store
\* holds and however long after the first the second is made), return the
\* same score and the same reasoning
C21_ScoreDeterministic ==
  ScoredTwice => last_call.second[1] = last_call.first

----------------------------------------------------------------------------
(* The counters of a run *)

\* the sends of the run that succeeded, as (preference id, channel) pairs
SuccessfulSends ==
  {a \in events.attempted :
     InSeq(a[2], Get(loc.total_stats, NotificationsSentKey(a[1]), <<>>))}

\* C32: when a run over at least one preference finishes normally, the counters
\* persisted on its job row hold repos_fetched, repos_cached, repos_filtered,
\* recommendations_generated, notifications_sent and errors_count, each the
\* total the loop accumulated, and notifications_sent is the number of channel
\* sends that succeeded
C32_CountersPersisted ==
  (Returned /\ loc.bound /\ Job.status = "completed") =>
     /\ {"repos_fetched", "repos_cached", "repos_filtered", "recommendations_generated",
         "notifications_sent", "errors_count"} \subseteq DOMAIN Job.counters
     /\ \A k \in {"repos_fetched", "repos_cached", "repos_filtered",
                  "recommendations_generated", "errors_count"} :
           Job.counters[k] = loc.total_stats[k]
     /\ Job.counters["notifications_sent"] = Cardinality(SuccessfulSends)

\* the preferences whose processing has ended: by an error, by the rate-limit
\* break, or at the end of the iteration
Ended(ev) == ev.errored \cup ev.stopped \cup ev.processed

\* C39: in every state of a run over N target preferences each preference whose
\* processing has ended has incremented exactly one of preferences_processed
\* and errors_count, so preferences_processed + errors_count <= N, with
\* equality when the run completes without a rate-limit break
C39_CounterAccounting ==
  /\ [][(loc.bound /\ loc'.bound /\ Ended(events') # Ended(events)) =>
          /\ Ended(events') = Ended(events) \cup {Current.id}
          /\ \/ /\ loc'.total_stats["preferences_processed"]
                     = loc.total_stats["preferences_processed"] + 1
                /\ loc'.total_stats["errors_count"] = loc.total_stats["errors_count"]
             \/ /\ loc'.total_stats["preferences_processed"]
                     = loc.total_stats["preferences_processed"]
                /\ loc'.total_stats["errors_count"] = loc.total_stats["errors_count"] + 1]_vars
  /\ [](loc.bound =>
          /\ loc.total_stats["preferences_processed"] + loc.total_stats["errors_count"]
               = Cardinality(Ended(events))
          /\ loc.total_stats["preferences_processed"] + loc.total_stats["errors_count"]
               <= Len(loc.preferences))
  /\ []((Returned /\ loc.bound /\ Job.status = "completed" /\ events.stopped = {}) =>
          Job.counters["preferences_processed"] + Job.counters["errors_count"]
            = Len(loc.preferences))

\* user 1's run over two preferences completed: the first ended in an error,
\* the second was processed, and the two counters are 1 and 1
C39_Witness ==
  /\ Returned /\ loc.bound /\ Len(loc.preferences) = 2
  /\ Job.status = "completed"
  /\ events.errored = {loc.preferences[1]} /\ events.processed = {loc.preferences[2]}
  /\ Job.counters["preferences_processed"] = 1
  /\ Job.counters["errors_count"] = 1

----------------------------------------------------------------------------
(* The users of a run *)

\* the preference named by the call is another user's
NamesForeignPreference ==
  \E k \in 1..Len(Preferences) :
     Preferences[k].id = args.preference_id /\ Preferences[k].user_id # args.user_id

\* C40: a run for user U processes only preferences owned by U (a
\* preference_id that names another user's preference resolves to the empty
\* set) and creates or modifies only recommendations whose user_id is U: the
\* rows of every other user are the same after each step of the run
C40_UserIsolation ==
  /\ [][/\ Len(recommendations') >= Len(recommendations)
        /\ \A k \in 1..Len(recommendations) :
              \/ recommendations'[k] = recommendations[k]
              \/ /\ recommendations[k].user_id = args.user_id
                 /\ recommendations'[k].user_id = args.user_id
        /\ \A k \in (Len(recommendations) + 1)..Len(recommendations') :
              recommendations'[k].user_id = args.user_id]_vars
  /\ [](loc.bound =>
          \A k \in 1..Len(loc.preferences) :
             Preferences[loc.preferences[k]].user_id = args.user_id)
  /\ []((Returned /\ UserExists(args.user_id) /\ NamesForeignPreference) =>
          /\ ~loc.bound
          /\ Job.status = "completed"
          /\ Job.error_message = "No active preferences found")

\* user 1's run over its own two preferences has ended: it updated user 1's
\* recommendation of repository 1 and added one of repository 2, and user 2's
\* recommendation of repository 1 is as it was
C40_Witness ==
  /\ Returned /\ args.user_id = 1 /\ loc.preferences = <<1, 2>>
  /\ Len(recommendations) = 3
  /\ recommendations[1].user_id = 2 /\ recommendations[1].created_at = 1
  /\ recommendations[1].preference_id = 4
  /\ recommendations[2].user_id = 1 /\ recommendations[2].job_run_id = args.job_run_id
  /\ recommendations[3].user_id = 1 /\ recommendations[3].repo_id = 2

----------------------------------------------------------------------------
(* The delivery record of a recommendation *)

\* the recommendation was delivered: its sent_channels is not empty and its
\* sent_at is set
Delivered(rec) == rec.sent_channels # <<>> /\ rec.sent_at # Null

\* C37: a delivery record is not lost: once a recommendation carries a
\* non-empty sent_channels and a sent_at, no step of a later run (which saves
\* the same (user, repo) again and dispatches with every channel failing or
\* unconfigured) makes its sent_channels empty or its sent_at null
C37_DeliveryRecordKept ==
  [][\A k \in 1..Len(recommendations) :
        Delivered(recommendations[k]) =>
          /\ k <= Len(recommendations')
          /\ Delivered(recommendations'[k])]_vars

----------------------------------------------------------------------------
(* The errors of _make_request *)

\* a direct call of _make_request has ended
RequestMade == last_call.op = "request"

\* C36: _make_request raises the rate-limit error, carrying the reset time of
\* the response, exactly when the status is 403 and the remaining quota is
\* zero; every other non-success response (a 403 with quota remaining
\* included) raises another error: bad request for 4xx, service unavailable
\* for 5xx
C36_RateLimitExactly ==
  RequestMade =>
    LET remaining == Get(last_call.headers, "X-RateLimit-Remaining", 0)
        reset_time == Get(last_call.headers, "X-RateLimit-Reset", 0)
        exhausted == last_call.status_code = 403 /\ remaining = 0
    IN  /\ (last_call.out.raised = "GitHubRateLimitError") <=> exhausted
        /\ exhausted => last_call.out.reset_time = reset_time
        /\ (~exhausted /\ last_call.status_code >= 400) =>
              last_call.out.raised = (IF last_call.status_code >= 500
                                      THEN "ServiceUnavailableException"
                                      ELSE "BadRequestException")

----------------------------------------------------------------------------
(* The provider client of a run *)

\* the run is inside the loop over its preferences
InsideLoop == pc \in {"fetch", "cache", "filter", "save", "notify"}

\* C38: the provider client's session is scoped to one run: it is opened once,
\* before the loop; it is open at every step of the loop, so every search
\* happens while it is open; and it is closed on every way out of the loop (the
\* loop's end, the rate-limit break, the last preference ending in an error)
\* before the job row is given a terminal status
C38_ClientScopedToRun ==
  /\ [][(client_open' /\ ~client_open) =>
          (pc = "resolve" /\ pc' = "fetch" /\ loc'.i = 1)]_vars
  /\ [][(client_open /\ ~client_open') => (InsideLoop /\ pc' = "finish")]_vars
  /\ [](InsideLoop <=> client_open)
  /\ [](\A j \in 1..Len(job_runs) :
           (j = args.job_run_id /\ job_runs[j].status \in Terminal) => ~client_open)

\* user 1's run searched for both preferences, the second ended in an error,
\* and the run is completed with the client closed
C38_Witness ==
  /\ Returned /\ args.user_id = 1 /\ Job.status = "completed"
  /\ events.search_completed = {1, 2}
  /\ events.errored = {2}
  /\ ~client_open

----------------------------------------------------------------------------
(* The fetch step: live search or recent cache *)

\* a step of the run that executes _fetch_repositories
FetchStep == pc = "fetch" /\ (loc' # loc \/ pc' # pc \/ events' # events)

\* the step sent a search to the provider for the current preference
SearchedNow ==
  Current.id \in (events'.search_completed \cup events'.search_failed)
                   \ (events.search_completed \cup events.search_failed)

\* the cache holds a record fetched within the freshness window; the runs of
\* the model are shorter than the window, so every record is recent
HasFreshRecord == repo_cache # <<>>

\* C34: the provider is queried for a preference if and only if force_refresh
\* is true or the cache holds no record fetched within the freshness window:
\* with force_refresh the searches are always made, without it they are made
\* when no cache record is recent and not made when one is
C34_QueriedIffRefreshOrStale ==
  [][FetchStep =>
       /\ args.force_refresh => SearchedNow
       /\ (~args.force_refresh /\ ~HasFreshRecord) => SearchedNow
       /\ (~args.force_refresh /\ HasFreshRecord) => ~SearchedNow]_vars

----------------------------------------------------------------------------
(* From the fetch step to the scoring step *)

\* the id of a repository returned by _fetch_repositories: of a provider item,
\* or of a dict parsed from a cache record
FetchedId(repo) == IF "id" \in DOMAIN repo THEN repo["id"] ELSE repo["repo_id"]

\* the repository carries its identity and the fields every record needs
WellFormedRepo(repo) ==
  /\ "id" \in DOMAIN repo \/ "repo_id" \in DOMAIN repo
  /\ (RequiredRawKeys \ {"id"}) \subseteq DOMAIN repo

\* C35: every well-formed repository returned by the fetch step reaches the
\* scoring step: when no snapshot is malformed, the list _cache_repositories
\* returns has the repo ids of the list _fetch_repositories returned, and
\* repos_cached grows as repos_fetched did, whether the repositories come
\* from a live search or from the recent records of the cache
C35_FetchedAreCached ==
  [][(pc = "cache" /\ pc' = "filter"
        /\ \A k \in 1..Len(loc.repos) : WellFormedRepo(loc.repos[k])) =>
       /\ loc'.cached_repos = [k \in 1..Len(loc.repos) |-> FetchedId(loc.repos[k])]
       /\ loc'.total_stats["repos_cached"]
            = loc.total_stats["repos_cached"] + Len(loc.repos)]_vars

----------------------------------------------------------------------------
(* Disabled preferences *)

\* the preference ids the run holds since it resolved its preferences
RunList == {loc.preferences[k] : k \in 1..Len(loc.preferences)}

\* the preferences a step works for: it logs a search, a dispatch or a send for
\* them, or writes a recommendation row in their name
WorkedFor ==
  ((events'.search_completed \cup events'.search_failed \cup events'.rate_limited
      \cup events'.dispatched)
     \ (events.search_completed \cup events.search_failed \cup events.rate_limited
          \cup events.dispatched))
  \cup {x[1] : x \in events'.attempted \ events.attempted}
  \cup {recommendations'[k].preference_id :
          k \in {i \in 1..Len(recommendations') :
                   i > Len(recommendations) \/ recommendations'[i] # recommendations[i]}}

\* C31: a preference that is disabled when a run resolves its preferences is
\* not in the run's list, whether the run targets all preferences or names
\* that preference id; the list stays as resolved, and the run searches, saves
\* recommendations and notifies only for preferences of its list; the toggle
\* that disables (or enables) a preference changes no Recommendation row.
C31_DisabledIsSkipped ==
  [][/\ (pc = "resolve" /\ pc' = "fetch") =>
          \A p \in 1..Len(Preferences) :
             ~pref_enabled[p] =>
                p \notin {loc'.preferences[k] : k \in 1..Len(loc'.preferences)}
     /\ (pc \notin {"idle", "resolve"}) => loc'.preferences = loc.preferences
     /\ (pc # "idle") => WorkedFor \subseteq RunList
     /\ (pref_enabled' # pref_enabled) => recommendations' = recommendations]_vars

\* preference 1 is disabled and a run over all of user 1's preferences has
\* ended: it searched and was processed for preference 2 alone
C31_Witness ==
  /\ ~pref_enabled[1]
  /\ pc = "done"
  /\ args.preference_id = NoInt
  /\ loc.preferences = <<2>>
  /\ events.search_completed = {2}
  /\ events.processed = {2}
  /\ recommendations # <<>>

----------------------------------------------------------------------------
(* Concurrent saves of one repository *)

\* both sessions save for the same user and the same repository
SamePair ==
  /\ sessions[1].user_id = sessions[2].user_id
  /\ sessions[1].item.repo_data["repo_id"] = sessions[2].item.repo_data["repo_id"]

\* both sessions have left save_recommendations
BothEnded == \A s \in 1..2 : sessions[s].pc \in {"returned", "raised"}

\* the rows of the first session's (user_id, repo_id) pair
RowsOfPair ==
  {k \in 1..Len(recommendations) :
     /\ recommendations[k].user_id = sessions[1].user_id
     /\ recommendations[k].repo_id = sessions[1].item.repo_data["repo_id"]}

\* C33: for every interleaving of two runs of the same user that each save a
\* recommendation for the same repository (lookup by (user_id, repo_id), then
\* insert or update, then commit), the table ends with exactly one row for
\* that pair and the save step of neither run fails.
C33_ConcurrentSaves ==
  (sessions # <<>> /\ SamePair /\ BothEnded) =>
     /\ Cardinality(RowsOfPair) = 1
     /\ \A s \in 1..2 : sessions[s].pc = "returned"

====
